---- MODULE Spec2Model ----
(***************************************************************************)
(* Model of the local inference core of gllmc:                             *)
(*   - the direct-lookup tokenizer and the greedy generation loops of      *)
(*     QwenONNX (Generate, GenerateWithCallback);                          *)
(*   - the WordPiece encoder of the MiniLM embedding path.                 *)
(* Text is a sequence of one-character strings where the code inspects     *)
(* characters (prompts, added-token contents, embedding inputs) and a      *)
(* string where the code only compares or concatenates it (vocabulary      *)
(* keys, decoded text).                                                    *)
(***************************************************************************)
EXTENDS Integers, Sequences, FiniteSets, TLC

(***************************************************************************)
(* Bounds.  The windows and the default budget are set in the source to    *)
(* 512, 128 and 64; the model runs the same code over a scaled window so   *)
(* that truncation, sliding and budget exhaustion all occur.               *)
(***************************************************************************)
\* QwenONNX.maxLen (512 in the source), scaled
maxLen == 2
\* the budget substituted for maxTokens <= 0 (64 in the source), scaled
DefaultMaxTokens == 2
\* largest maxTokens argument a caller passes
MaxBudget == 2
\* longest prompt, in characters
MaxPromptChars == 5
\* width of a logits row (shape[2])
LogitsVocab == 2

\* float32(-1e30), the initial maximum of argmax, on the model's integer scale
ArgmaxFloor == -1000

VARIABLES
    tokFile,         \* which tokenizer.json the QwenONNX was constructed from
    pc,              \* position of the generation call
    variant,         \* "Generate" or "GenerateWithCallback"
    maxTokensArg,    \* the maxTokens argument as passed
    maxTokens,       \* the local maxTokens after normalisation
    hasCb,           \* cb != nil
    ids,             \* the live token sequence
    t,               \* loop counter
    outText,         \* GenerateWithCallback's outText
    ctxDone,         \* ctx.Done() is closed
    inputs,          \* tensors handed to the last session.Run
    runs,            \* session.Run calls started in this call
    runsAfterCancel, \* session.Run calls completed after ctx was cancelled
    appended,        \* token ids appended in this call
    lastID,          \* nextID of the last completed step (-1: none)
    cbLog,           \* arguments of the cb invocations, in order
    result,          \* returned string
    err,             \* returned error ("nil" for nil)
    exit             \* how the loop was left

genVars == <<tokFile, pc, variant, maxTokensArg, maxTokens, hasCb, ids, t,
             outText, ctxDone, inputs, runs, runsAfterCancel, appended,
             lastID, cbLog, result, err, exit>>

(***************************************************************************)
(* Characters                                                              *)
(***************************************************************************)
IsSpace(c) == c \in {" ", "\t", "\n"}

ToLowerCh(c) ==
    CASE c = "A" -> "a" [] c = "B" -> "b" [] c = "E" -> "e"
      [] c = "O" -> "o" [] c = "S" -> "s" [] OTHER -> c

ToLower(s) == [i \in 1..Len(s) |-> ToLowerCh(s[i])]

RECURSIVE Concat(_)
Concat(s) == IF s = <<>> THEN "" ELSE s[1] \o Concat(Tail(s))

\* strings.Contains over character sequences
Contains(s, sub) ==
    \E i \in 1..(Len(s) - Len(sub) + 1) : SubSeq(s, i, i + Len(sub) - 1) = sub

\* strings.Fields: the maximal runs of non-space characters, in order
RECURSIVE FieldsFrom(_, _, _, _)
FieldsFrom(s, i, cur, out) ==
    IF i > Len(s)
    THEN IF cur = "" THEN out ELSE Append(out, cur)
    ELSE IF IsSpace(s[i])
         THEN FieldsFrom(s, i + 1, "", IF cur = "" THEN out ELSE Append(out, cur))
         ELSE FieldsFrom(s, i + 1, cur \o s[i], out)

Fields(s) == FieldsFrom(s, 1, "", <<>>)

\* strings.Join(parts, " ")
RECURSIVE Join(_)
Join(parts) ==
    IF parts = <<>> THEN ""
    ELSE IF Len(parts) = 1 THEN parts[1]
    ELSE parts[1] \o " " \o Join(Tail(parts))

(***************************************************************************)
(* tokenizer.json files and loadBPETokenizer                               *)
(***************************************************************************)
EndOfText == <<"<", "|", "e", "n", "d", "o", "f", "t", "e", "x", "t", "|", ">">>

\* File 1: <|endoftext|> is an added token whose id has no vocabulary entry;
\*         the id of "b" lies past the end of id2token.
\* File 2: no added token denotes end-of-text; id 0 and id 3 have no string.
\* File 3: the end-of-text id is found through the "eos" substring and is
\*         also a vocabulary entry; a later <|endoftext|> entry is ignored.
TokFiles == <<
    [ vocab |-> ("a" :> 0 @@ "b" :> 2),
      added |-> << [ID |-> 1, Content |-> EndOfText] >> ],
    [ vocab |-> ("a" :> 1 @@ "b" :> 3),
      added |-> << [ID |-> 2, Content |-> <<"<", "p", "a", "d", ">">>] >> ],
    [ vocab |-> ("a" :> 0 @@ "b" :> 2 @@ "end" :> 1),
      added |-> << [ID |-> 5, Content |-> <<"<", "u", "n", "k", ">">>],
                   [ID |-> 1, Content |-> <<"<", "/", "E", "O", "S", ">">>],
                   [ID |-> 0, Content |-> EndOfText] >> ]
>>

DenotesEOS(content) ==
    Contains(ToLower(content), <<"e", "o", "s">>) \/ content = EndOfText

\* mutation: the "not found" value is the zero value instead of -1
FindEOS_ZeroDefault(added, i) ==
    IF \E k \in i..Len(added) : DenotesEOS(added[k].Content)
    THEN added[CHOOSE k \in i..Len(added) :
                 /\ DenotesEOS(added[k].Content)
                 /\ \A j \in i..(k - 1) : ~DenotesEOS(added[j].Content)].ID
    ELSE 0

RECURSIVE FindEOS(_, _)
FindEOS(added, i) ==
    IF i > Len(added) THEN -1
    ELSE IF DenotesEOS(added[i].Content) THEN added[i].ID
    ELSE FindEOS(added, i + 1)

loadBPETokenizer(file) ==
    LET n == Cardinality(DOMAIN file.vocab)
        id2 == [i \in 0..(n - 1) |->
                  IF \E w \in DOMAIN file.vocab : file.vocab[w] = i
                  THEN CHOOSE w \in DOMAIN file.vocab : file.vocab[w] = i
                  ELSE ""]
    IN [vocab |-> file.vocab, id2token |-> id2, eosTokenID |-> FindEOS(file.added, 1)]

\* mutation: the placeholder for an empty result is left out
Encode_NoFallback(tk, s) ==
    LET parts == Fields(s)
    IN [i \in 1..Len(parts) |->
          IF parts[i] \in DOMAIN tk.vocab THEN tk.vocab[parts[i]] ELSE 0]

Encode(tk, s) ==
    LET parts == Fields(s)
        out == [i \in 1..Len(parts) |->
                  IF parts[i] \in DOMAIN tk.vocab THEN tk.vocab[parts[i]] ELSE 0]
    IN IF Len(out) = 0 THEN <<0>> ELSE out

RECURSIVE DecodeParts(_, _)
DecodeParts(tk, s) ==
    IF s = <<>> THEN <<>>
    ELSE LET i == s[1]
         IN IF i >= 0 /\ i < Cardinality(DOMAIN tk.id2token) /\ tk.id2token[i] # ""
            THEN <<tk.id2token[i]>> \o DecodeParts(tk, Tail(s))
            ELSE DecodeParts(tk, Tail(s))

Decode(tk, s) == Join(DecodeParts(tk, s))

\* mutation: the sign test on eosTokenID inverted
IsEOS_SignInverted(tk, id) == tk.eosTokenID < 0 /\ id = tk.eosTokenID

IsEOS(tk, id) == tk.eosTokenID >= 0 /\ id = tk.eosTokenID

(***************************************************************************)
(* Helpers of the generation loops                                         *)
(***************************************************************************)
\* mutation: only a negative budget is replaced by the default
NormMaxTokens_NegativeOnly(m) == IF m < 0 THEN DefaultMaxTokens ELSE m

\* if maxTokens <= 0 { maxTokens = 64 }
NormMaxTokens(m) == IF m <= 0 THEN DefaultMaxTokens ELSE m

\* mutation: the first maxLen tokens are kept
KeepLast_First(s) == IF Len(s) > maxLen THEN SubSeq(s, 1, maxLen) ELSE s

\* if len(ids) > q.maxLen { ids = ids[len(ids)-q.maxLen:] }
KeepLast(s) == IF Len(s) > maxLen THEN SubSeq(s, Len(s) - maxLen + 1, Len(s)) ELSE s

\* ids = append(ids, nextID); if len(ids) > q.maxLen { ids = ids[1:] }
AppendSlide(s, id) ==
    LET a == Append(s, id) IN IF Len(a) > maxLen THEN Tail(a) ELSE a

\* mutation: the position ids count from 1
BuildTensors_OneBased(s) ==
    [ shape          |-> <<1, Len(s)>>,
      input_ids      |-> s,
      attention_mask |-> [i \in 1..Len(s) |-> 1],
      position_ids   |-> [i \in 1..Len(s) |-> i] ]

\* mask of ones and position ids 0..len(ids)-1, shape (1, len(ids))
BuildTensors(s) ==
    [ shape          |-> <<1, Len(s)>>,
      input_ids      |-> s,
      attention_mask |-> [i \in 1..Len(s) |-> 1],
      position_ids   |-> [i \in 1..Len(s) |-> i - 1] ]

NoTensors == [shape |-> <<1, 0>>, input_ids |-> <<>>,
              attention_mask |-> <<>>, position_ids |-> <<>>]

\* argmax: v is indexed from 0 as in the code
RECURSIVE ArgmaxFrom(_, _, _, _)
ArgmaxFrom(v, i, max, idx) ==
    IF i >= Cardinality(DOMAIN v) THEN idx
    ELSE IF v[i] > max THEN ArgmaxFrom(v, i + 1, v[i], i)
    ELSE ArgmaxFrom(v, i + 1, max, idx)

argmax(v) == ArgmaxFrom(v, 0, ArgmaxFloor, 0)

(***************************************************************************)
(* Inputs                                                                  *)
(***************************************************************************)
PromptChars == {"a", "b", " "}

RECURSIVE SeqsUpTo(_, _)
SeqsUpTo(S, n) ==
    IF n = 0 THEN {<<>>}
    ELSE LET prev == SeqsUpTo(S, n - 1)
         IN prev \cup {Append(s, c) : s \in {p \in prev : Len(p) = n - 1}, c \in S}

Prompts == SeqsUpTo(PromptChars, MaxPromptChars)

MaxTokensArgs == (-1)..MaxBudget

\* one value below the floor of argmax, two above it
LogitVals == {ArgmaxFloor - 1, 0, 1}

LogitRows == [0..(LogitsVocab - 1) -> LogitVals]

tok == loadBPETokenizer(TokFiles[tokFile])

(***************************************************************************)
(* The embedding path: vocab.txt files, loadWordPiece, basicTokens,        *)
(* tokenizeWord, encode                                                    *)
(***************************************************************************)
\* miniLMOnnx.maxLen (128 in the source), scaled
miniLMMaxLen == 3
\* longest input text, in characters
MaxTextChars == 2
\* largest number of texts in one Embed call
MaxBatch == 1
\* hidden dimension of last_hidden_state (shape[2])
HiddenDim == 1

VARIABLES
    embFile,     \* which vocab.txt the miniLMOnnx was constructed from
    embPc,       \* position of the Embed call
    embIDs,      \* rows of input_ids
    embMasks,    \* rows of attention_mask
    embTTI,      \* rows of token_type_ids
    embRuns,     \* session.Run calls started in this call
    embOut,      \* returned vectors
    embName,     \* returned model name
    embErr       \* returned error ("nil" for nil)

embVars == <<embFile, embPc, embIDs, embMasks, embTTI, embRuns, embOut, embName, embErr>>

IsLetter(c) == c \in {"a", "b", "e", "o", "s", "A", "B", "E", "O", "S"}

IsDigit(c) == c \in {"0", "1", "2", "3", "4", "5", "6", "7", "8", "9"}

\* strings.TrimSpace
RECURSIVE TrimLeft(_)
TrimLeft(s) == IF s # <<>> /\ (IsSpace(s[1]) \/ s[1] = "\r") THEN TrimLeft(Tail(s)) ELSE s

RECURSIVE TrimRight(_)
TrimRight(s) ==
    IF s # <<>> /\ (IsSpace(s[Len(s)]) \/ s[Len(s)] = "\r")
    THEN TrimRight(SubSeq(s, 1, Len(s) - 1)) ELSE s

TrimSpace(s) == TrimRight(TrimLeft(s))

\* The lines of three vocab.txt files.
\* File 1: the specials lead the file, as in the published vocabulary; "a" and
\*         "ab" are both entries, so that the longest prefix matters.
\* File 2: no special token, CRLF line ends and an empty line.
\* File 3: the specials in another order ([PAD] is not line 0), a repeated line.
VocabFiles == <<
    << <<"[", "P", "A", "D", "]">>,
       <<"[", "U", "N", "K", "]">>,
       <<"[", "C", "L", "S", "]">>,
       <<"[", "S", "E", "P", "]">>,
       <<"a">>,
       <<"#", "#", "b">>,
       <<"b", "a">>,
       <<"a", "b">> >>,
    << <<"a", "\r">>,
       <<>>,
       <<"b", "\r">>,
       <<"#", "#", "a", "\r">> >>,
    << <<"[", "C", "L", "S", "]">>,
       <<"[", "P", "A", "D", "]">>,
       <<"[", "S", "E", "P", "]">>,
       <<"[", "U", "N", "K", "]">>,
       <<"a">>,
       <<"a">>,
       <<"#", "#", "b">> >>
>>

\* get := func(tok string, def int) int
GetOr(vp, key, def) == IF key \in DOMAIN vp THEN vp[key] ELSE def

loadWordPiece(lines) ==
    LET key(i) == Concat(TrimSpace(lines[i]))
        used   == {i \in 1..Len(lines) : key(i) # ""}
        keys   == {key(i) : i \in used}
        \* if _, ok := vp[tok]; !ok { vp[tok] = i }: the first line wins
        vp     == [k \in keys |->
                     (CHOOSE i \in used :
                        /\ key(i) = k
                        /\ \A j \in used : key(j) = k => i <= j) - 1]
    IN [ vocab |-> vp,
         unkID |-> GetOr(vp, "[UNK]", 100),
         clsID |-> GetOr(vp, "[CLS]", 101),
         sepID |-> GetOr(vp, "[SEP]", 102),
         padID |-> GetOr(vp, "[PAD]", 0) ]

\* the maximal runs of letters and digits of the lower-cased text
RECURSIVE BasicFrom(_, _, _, _)
BasicFrom(s, i, cur, out) ==
    IF i > Len(s)
    THEN IF cur = <<>> THEN out ELSE Append(out, cur)
    ELSE IF IsLetter(s[i]) \/ IsDigit(s[i])
         THEN BasicFrom(s, i + 1, Append(cur, s[i]), out)
         ELSE BasicFrom(s, i + 1, <<>>, IF cur = <<>> THEN out ELSE Append(out, cur))

basicTokens(s) == BasicFrom(ToLower(s), 1, <<>>, <<>>)

HasMarker(c) == Len(c) >= 2 /\ c[1] = "#" /\ c[2] = "#"

\* the candidate tried for the prefix tok[:end]
Candidate(w, out, end) ==
    IF Len(out) > 0 THEN <<"#", "#">> \o SubSeq(w, 1, end) ELSE SubSeq(w, 1, end)

\* the outer loop of tokenizeWord: the longest prefix whose candidate is in the
\* vocabulary, or [UNK] and stop when there is none
RECURSIVE TokenizeFrom(_, _, _)
TokenizeFrom(wp, w, out) ==
    IF Len(w) = 0 THEN out
    ELSE LET hits == {e \in 1..Len(w) : Concat(Candidate(w, out, e)) \in DOMAIN wp.vocab}
         IN IF hits = {}
            THEN Append(out, wp.unkID)
            ELSE LET end  == CHOOSE e \in hits : \A f \in hits : f <= e
                     cand == Candidate(w, out, end)
                     cur  == IF HasMarker(cand) THEN SubSeq(cand, 3, Len(cand)) ELSE cand
                 IN TokenizeFrom(wp, SubSeq(w, Len(cur) + 1, Len(w)),
                                 Append(out, wp.vocab[Concat(cand)]))

tokenizeWord(wp, w) == IF w = <<>> THEN <<>> ELSE TokenizeFrom(wp, w, <<>>)

RECURSIVE Pieces(_, _)
Pieces(wp, toks) ==
    IF toks = <<>> THEN <<>> ELSE tokenizeWord(wp, toks[1]) \o Pieces(wp, Tail(toks))

encode(wp, text, n) ==
    LET full == <<wp.clsID>> \o Pieces(wp, basicTokens(text)) \o <<wp.sepID>>
        seq  == IF Len(full) > n THEN SubSeq(full, 1, n) ELSE full
    IN [ ids  |-> [i \in 1..n |-> IF i <= Len(seq) THEN seq[i] ELSE 0],
         mask |-> [i \in 1..n |-> IF i <= Len(seq) THEN 1 ELSE 0] ]

batchTokenize(wp, texts, n) == [i \in 1..Len(texts) |-> encode(wp, texts[i], n)]

\* Masked mean pooling and L2 normalisation of one batch item.  The float32
\* result is kept as the expression the code evaluates: sum * (1/count) when
\* count > 0, then * (1/sqrt(norm)) when norm > 0.
Pool(hidden, mask) ==
    LET on    == {j \in 1..Len(mask) : mask[j] # 0}
        RECURSIVE SumOver(_, _)
        SumOver(J, d) ==
            IF J = {} THEN 0
            ELSE LET j == CHOOSE x \in J : TRUE
                 IN hidden[j][d] + SumOver(J \ {j}, d)
        sum   == [d \in 1..HiddenDim |-> SumOver(on, d)]
        count == Cardinality(on)
    IN [ sum        |-> sum,
         count      |-> count,
         normalized |-> count > 0 /\ \E d \in 1..HiddenDim : sum[d] # 0 ]

EmbChars == {"a", "B", " "}

EmbTexts == SeqsUpTo(EmbChars, MaxTextChars)

EmbInputs == UNION {[1..n -> EmbTexts] : n \in 0..MaxBatch}

HiddenVals == {-1, 1}

\* the rows of last_hidden_state that belong to one batch item
ItemHidden == [1..miniLMMaxLen -> [1..HiddenDim -> HiddenVals]]

\* The vectors Embed can return for the given masks: item i is pooled from its
\* own rows only, and last_hidden_state ranges over all tensors, so the
\* outputs are all combinations of the pooled rows of each item.
RECURSIVE PooledFrom(_, _)
PooledFrom(masks, i) ==
    IF i > Len(masks) THEN {<<>>}
    ELSE {<<p>> \o rest : p \in {Pool(h, masks[i]) : h \in ItemHidden},
                          rest \in PooledFrom(masks, i + 1)}

PooledOutputs(masks) == PooledFrom(masks, 1)

\* the tokenizer of each vocab.txt, loaded once
wordPieces == [f \in 1..Len(VocabFiles) |-> loadWordPiece(VocabFiles[f])]

\* m.tokenizer
wordPiece == wordPieces[embFile]

ModelName == "all-MiniLM-L6-v2"

NilVectors == [isNil |-> TRUE, vecs |-> <<>>]

InitEmb ==
    /\ embFile \in 1..Len(VocabFiles)
    /\ embPc = "idle"
    /\ embIDs = <<>>
    /\ embMasks = <<>>
    /\ embTTI = <<>>
    /\ embRuns = 0
    /\ embOut = NilVectors
    /\ embName = ""
    /\ embErr = "nil"

(***************************************************************************)
(* The variables of the other components.  Each component is checked under *)
(* a specification of its own, in which the others stay in their initial   *)
(* state.                                                                  *)
(***************************************************************************)
VARIABLES
    wpPc,        \* position of the encode call of the WordPiece path
    wpText,      \* the text argument of encode
    wpToks,      \* basic tokens not yet passed to tokenizeWord
    wpWord,      \* the argument of the last tokenizeWord call
    wpTok,       \* tokenizeWord's tok: the remainder of the word
    wpOut,       \* tokenizeWord's out
    wpCur,       \* the candidates matched so far in this word, in order
    wpFailed,    \* the last tokenizeWord call ended on a failed search
    wpPieces,    \* encode's pieces
    wpRow        \* the rows returned by encode

wpVars == <<wpPc, wpText, wpToks, wpWord, wpTok, wpOut, wpCur, wpFailed,
            wpPieces, wpRow>>

VARIABLES
    backend,     \* the embeddings.Service the process constructed
    hPc,         \* position of the Embed call of a hash embedder
    hInputs,     \* its inputs argument
    hI,          \* the index of its range loop
    hOut,        \* its out slice
    hName,       \* the returned model name
    hErr,        \* the returned error ("nil" for nil)
    hSeen        \* the vector returned for each text by the calls completed so far

hashVars == <<backend, hPc, hInputs, hI, hOut, hName, hErr, hSeen>>

VARIABLES
    httpPc,      \* position of handleEmbeddings
    httpBody,    \* the body of the request
    httpInputs,  \* its inputs slice
    httpInvoked, \* whether d.Embeddings.Embed was called
    httpStatus,  \* the status code of the response (0: none yet)
    httpCount    \* the number of vectors in "embeddings" of the response

httpVars == <<httpPc, httpBody, httpInputs, httpInvoked, httpStatus, httpCount>>

VARIABLES
    sttTransport, \* "sse": handleSTTTranscribeStream, "ws": the /stt socket
    sttPc,        \* position of the handler
    sttOut,       \* the events the handler wrote, in order
    sttCtxDone,   \* r.Context() is done
    prodPc,       \* position of the goroutine of TranscribeFileStream
    prodScript,   \* the lines whisper will print (TRUE: blank after trimming)
    prodNext,     \* the number of lines scanned so far
    prodFail,     \* what fails in the goroutine: "none", "setup", "scan"
    errsBuf,      \* the number of errors buffered in errs (capacity 1)
    errsClosed,   \* errs is closed
    linesClosed   \* lines is closed

sttVars == <<sttTransport, sttPc, sttOut, sttCtxDone, prodPc, prodScript,
             prodNext, prodFail, errsBuf, errsClosed, linesClosed>>

VARIABLES
    fsFiles,      \* the files of the model and runtime directories
    instPc,       \* position of ensureRuntimeAndModel
    instArtifact, \* the artifact it is working on: "lib", "model", "vocab"
    instUrl,      \* the index of the URL tryDownload is trying
    instAccepted  \* the files an existence check accepted, as they were then

fsVars == <<fsFiles, instPc, instArtifact, instUrl, instAccepted>>

VARIABLES
    rsVariant,   \* the download loop that runs: "tryDownload", "ortDarwin",
                 \* "whisperModel", or "retry" for downloadFileWithRetry alone
    rsPc,        \* its position
    rsNumUrls,   \* len(urls)
    rsUrl,       \* the index of the URL the loop is at
    rsLast,      \* var last error of the loop over the URLs
    rsRetries,   \* the retries argument of downloadFileWithRetry
    rsI,         \* its loop variable i
    rtLast,      \* its var last error
    rsLog,       \* the downloadFile calls made, in order, with their outcome
    rsDst,       \* what is at dst: "missing", "stale" or "fresh"
    rsLater,     \* what was at dst when the step after the loop ran ("none": it did not)
    rsResult     \* what the resolving function returned

rsVars == <<rsVariant, rsPc, rsNumUrls, rsUrl, rsLast, rsRetries, rsI, rtLast,
            rsLog, rsDst, rsLater, rsResult>>

VARIABLES
    ccPc,        \* position of each caller of ensureWhisperInstalled
    ccTry,       \* the loop variable i of each caller's downloadFileWithRetry
    ccResult,    \* what ensureWhisperInstalled returned to each caller
    ccWriters,   \* the callers that hold the .part file open for writing
    ccPart,      \* the .part file exists
    ccZip,       \* the downloaded archive exists
    ccBinary,    \* a whisper binary is in binDir
    ccPerformed  \* the callers that started a download

ccVars == <<ccPc, ccTry, ccResult, ccWriters, ccPart, ccZip, ccBinary, ccPerformed>>

VARIABLES
    rtPc,        \* "start", "serving" (routes registered), "answered"
    rtDeps,      \* the services that are non-nil in Dependencies
    rtRoutes,    \* the patterns registered on the mux
    rtMethod,    \* the method of the request being served
    rtPath,      \* its path
    rtStatus,    \* the status written by the mux or the route's closure, 0: none
    rtBody,      \* the body written with it
    rtHandler    \* the service handler the closure passed the request to

rtVars == <<rtPc, rtDeps, rtRoutes, rtMethod, rtPath, rtStatus, rtBody, rtHandler>>

VARIABLES
    amPc,        \* "idle", "read" (logits read, row sliced), "returned"
    amShape,     \* tens.GetShape()
    amData,      \* tens.GetData(), indexed from 0
    amRow,       \* data[start : start+vocab], indexed from 0
    amNext       \* nextID (-1: none)

amVars == <<amPc, amShape, amData, amRow, amNext>>

VARIABLES
    trPc,        \* "idle", "entered" (at the for statement)
    trVariant,   \* the function entered
    trPrompt,    \* its prompt argument
    trIds        \* ids when the loop is reached

trVars == <<trPc, trVariant, trPrompt, trIds>>

VARIABLES
    tfPc,        \* position of each transcription request
    tfPath,      \* the temp path of each request
    tfRead,      \* whose audio the transcriber read for each request
    tfRemoved,   \* whose audio each request's os.Remove deleted
    tfFiles      \* the temp directory: path -> the request whose audio it holds

tfVars == <<tfPc, tfPath, tfRead, tfRemoved, tfFiles>>

VARIABLES
    llmPc,       \* position of the EnsureReady call
    llmAddr,     \* s.addr: "" or the address of the started server
    llmStarted,  \* llama-server processes started so far
    llmPassed,   \* the server at s.addr has answered /health with 200
    llmPolls,    \* health polls made by the startServer in progress
    llmResult,   \* what the last EnsureReady returned
    llmProxy     \* what the last proxy handler did

llmVars == <<llmPc, llmAddr, llmStarted, llmPassed, llmPolls, llmResult, llmProxy>>

\* the components of the services around the inference core
laterVars == <<rsVars, ccVars, rtVars, amVars, trVars, tfVars, llmVars>>

restVars == <<wpVars, hashVars, httpVars, sttVars, fsVars, laterVars>>

NoRow == [ids |-> <<>>, mask |-> <<>>]

InitWp ==
    /\ wpPc = "idle"
    /\ wpText = <<>>
    /\ wpToks = <<>>
    /\ wpWord = <<>>
    /\ wpTok = <<>>
    /\ wpOut = <<>>
    /\ wpCur = <<>>
    /\ wpFailed = FALSE
    /\ wpPieces = <<>>
    /\ wpRow = NoRow

NoTexts == [txt \in {} |-> 0]

InitHashCall ==
    /\ hPc = "idle"
    /\ hInputs = <<>>
    /\ hI = 0
    /\ hOut = <<>>
    /\ hName = ""
    /\ hErr = "nil"
    /\ hSeen = NoTexts

NoBody == [kind |-> "none"]

InitHttp ==
    /\ httpPc = "idle"
    /\ httpBody = NoBody
    /\ httpInputs = <<>>
    /\ httpInvoked = FALSE
    /\ httpStatus = 0
    /\ httpCount = 0

InitStt ==
    /\ sttTransport = "none"
    /\ sttPc = "idle"
    /\ sttOut = <<>>
    /\ sttCtxDone = FALSE
    /\ prodPc = "none"
    /\ prodScript = <<>>
    /\ prodNext = 0
    /\ prodFail = "none"
    /\ errsBuf = 0
    /\ errsClosed = FALSE
    /\ linesClosed = FALSE

\* the paths the installation touches
Paths == {"libonnxruntime.so", "ort.tgz", "ort.tgz.part", "model.onnx",
          "model.onnx.part", "vocab.txt", "vocab.txt.part"}

Absent == [exists |-> FALSE, written |-> 0]

\* a fresh machine: nothing is installed
InitFs ==
    /\ fsFiles = [p \in Paths |-> Absent]
    /\ instPc = "idle"
    /\ instArtifact = "none"
    /\ instUrl = 0
    /\ instAccepted = {}

\* every component but the choice of the embeddings backend
\* error values: the error of the try-th downloadFile call for the url-th URL
Err(url, try) == [url |-> url, try |-> try]

\* the nil error
NoErr == Err(0, 0)

NoResult == [kind |-> "none"]

InitRs ==
    /\ rsVariant = "none"
    /\ rsPc = "idle"
    /\ rsNumUrls = 0
    /\ rsUrl = 0
    /\ rsLast = NoErr
    /\ rsRetries = 0
    /\ rsI = 0
    /\ rtLast = NoErr
    /\ rsLog = <<>>
    /\ rsDst = "missing"
    /\ rsLater = "none"
    /\ rsResult = NoResult

\* the number of requests that may be in ensureWhisperInstalled at once
NumCallers == 2

Callers == 1..NumCallers

\* a fresh binDir, no request yet
InitCc ==
    /\ ccPc = [c \in Callers |-> "idle"]
    /\ ccTry = [c \in Callers |-> 0]
    /\ ccResult = [c \in Callers |-> "none"]
    /\ ccWriters = {}
    /\ ccPart = FALSE
    /\ ccZip = FALSE
    /\ ccBinary = FALSE
    /\ ccPerformed = {}

\* a new ServeMux, RegisterRoutes not yet called
InitRt ==
    /\ rtPc = "start"
    /\ rtDeps = {}
    /\ rtRoutes = {}
    /\ rtMethod = ""
    /\ rtPath = ""
    /\ rtStatus = 0
    /\ rtBody = ""
    /\ rtHandler = ""

\* no logits read yet
InitAm ==
    /\ amPc = "idle"
    /\ amShape = <<1, 0, 0>>
    /\ amData = <<>>
    /\ amRow = <<>>
    /\ amNext = -1

\* no call entered yet
InitTr ==
    /\ trPc = "idle"
    /\ trVariant = ""
    /\ trPrompt = <<>>
    /\ trIds = <<>>

\* the transcription requests that may be in flight together
Requests == {1, 2}

\* what a path of the temp directory holds: nothing, an empty file, or the
\* audio of a request
NoFile == <<"none", 0>>
EmptyFile == <<"empty", 0>>
AudioOf(r) == <<"audio", r>>

\* no request yet, the temp directory holds none of their files
InitTf ==
    /\ tfPc = [r \in Requests |-> "idle"]
    /\ tfPath = [r \in Requests |-> <<>>]
    /\ tfRead = [r \in Requests |-> NoFile]
    /\ tfRemoved = [r \in Requests |-> NoFile]
    /\ tfFiles = <<>>

\* llm.New: no server, addr empty
InitLlm ==
    /\ llmPc = "idle"
    /\ llmAddr = ""
    /\ llmStarted = 0
    /\ llmPassed = FALSE
    /\ llmPolls = 0
    /\ llmResult = "none"
    /\ llmProxy = "none"

InitLater == InitRs /\ InitCc /\ InitRt /\ InitAm /\ InitTr /\ InitTf /\ InitLlm

InitRest == InitWp /\ InitHashCall /\ InitHttp /\ InitStt /\ InitFs /\ InitLater

\* the components of the inference core and its handlers
baseVars == <<genVars, embVars, wpVars, hashVars, httpVars, sttVars, fsVars>>

\* what the steps of the download loops leave alone
rsOthers == <<baseVars, ccVars, rtVars, amVars, trVars, tfVars, llmVars>>

\* what the steps of ensureWhisperInstalled leave alone
ccOthers == <<baseVars, rsVars, rtVars, amVars, trVars, tfVars, llmVars>>

\* what the mux leaves alone
rtOthers == <<baseVars, rsVars, ccVars, amVars, trVars, tfVars, llmVars>>

\* what the reading of the logits leaves alone
amOthers == <<baseVars, rsVars, ccVars, rtVars, trVars, tfVars, llmVars>>

\* what the handling of the temp audio files leaves alone
tfOthers == <<baseVars, rsVars, ccVars, rtVars, amVars, trVars, llmVars>>

\* what the llama-server service leaves alone
llmOthers == <<baseVars, rsVars, ccVars, rtVars, amVars, trVars, tfVars>>

\* what the entry of a generation call leaves alone
trOthers == <<baseVars, rsVars, ccVars, rtVars, amVars, tfVars, llmVars>>

\* what the steps of the WordPiece path leave alone
wpOthers == <<genVars, embVars, hashVars, httpVars, sttVars, fsVars, laterVars>>

\* what the steps of the hash embedders leave alone
hashOthers == <<genVars, embVars, wpVars, sttVars, fsVars, laterVars>>

\* what the steps of handleEmbeddings leave alone
httpOthers == <<genVars, embVars, wpVars, sttVars, fsVars, laterVars>>

\* what the steps of the installation leave alone
fsOthers == <<genVars, embVars, wpVars, hashVars, httpVars, sttVars, laterVars>>

\* what the steps of a streaming transcription leave alone
sttOthers == <<genVars, embVars, wpVars, hashVars, httpVars, fsVars, laterVars>>

(***************************************************************************)
(* The generation call                                                     *)
(***************************************************************************)
InitGen ==
    /\ tokFile \in 1..Len(TokFiles)
    /\ pc = "idle"
    /\ variant = "none"
    /\ maxTokensArg = 0
    /\ maxTokens = 0
    /\ hasCb = FALSE
    /\ ids = <<>>
    /\ t = 0
    /\ outText = ""
    /\ ctxDone = FALSE
    /\ inputs = NoTensors
    /\ runs = 0
    /\ runsAfterCancel = 0
    /\ appended = 0
    /\ lastID = -1
    /\ cbLog = <<>>
    /\ result = ""
    /\ err = "nil"
    /\ exit = "none"

\* entry of either function up to the for statement
Enter(v, prompt, m, cb) ==
    /\ variant' = v
    /\ maxTokensArg' = m
    /\ maxTokens' = NormMaxTokens(m)
    /\ hasCb' = cb
    /\ ids' = KeepLast(Encode(tok, prompt))
    /\ t' = 0
    /\ outText' = ""
    /\ pc' = "loop"
    /\ UNCHANGED <<embVars, restVars>>
    /\ UNCHANGED <<tokFile, ctxDone, inputs, runs, runsAfterCancel, appended,
                   lastID, cbLog, result, err, exit>>

\* a return statement
Return(text, e, how) ==
    /\ result' = text
    /\ err' = e
    /\ exit' = how
    /\ pc' = "returned"

\* the session.Run in progress returns
RunCompletes ==
    /\ pc = "running"
    /\ runsAfterCancel' = IF ctxDone THEN runsAfterCancel + 1 ELSE runsAfterCancel

GenerateCall ==
    /\ pc = "idle" /\ embPc = "idle"
    /\ \E prompt \in Prompts, m \in MaxTokensArgs :
        Enter("Generate", prompt, m, FALSE)

\* t < maxTokens is false: return q.tok.Decode(ids), nil
GenerateLoopExit ==
    /\ pc = "loop" /\ variant = "Generate"
    /\ ~(t < maxTokens)
    /\ Return(Decode(tok, ids), "nil", "budget")
    /\ UNCHANGED <<embVars, restVars>>
    /\ UNCHANGED <<tokFile, variant, maxTokensArg, maxTokens, hasCb, ids, t,
                   outText, ctxDone, inputs, runs, runsAfterCancel, appended,
                   lastID, cbLog>>

\* ort.NewTensor fails
GenerateTensorFail ==
    /\ pc = "loop" /\ variant = "Generate"
    /\ t < maxTokens
    /\ Return("", "tensor", "error")
    /\ UNCHANGED <<embVars, restVars>>
    /\ UNCHANGED <<tokFile, variant, maxTokensArg, maxTokens, hasCb, ids, t,
                   outText, ctxDone, inputs, runs, runsAfterCancel, appended,
                   lastID, cbLog>>

\* the tensors are built and session.Run is entered
GenerateRunStart ==
    /\ pc = "loop" /\ variant = "Generate"
    /\ t < maxTokens
    /\ inputs' = BuildTensors(ids)
    /\ runs' = runs + 1
    /\ pc' = "running"
    /\ UNCHANGED <<embVars, restVars>>
    /\ UNCHANGED <<tokFile, variant, maxTokensArg, maxTokens, hasCb, ids, t,
                   outText, ctxDone, runsAfterCancel, appended, lastID, cbLog,
                   result, err, exit>>

\* mutation: the text decoded so far is returned with the error
GenerateRunFail_ReturnsText ==
    /\ variant = "Generate"
    /\ RunCompletes
    /\ \E e \in {"run", "type", "shape"} : Return(Decode(tok, ids), e, "error")
    /\ UNCHANGED <<embVars, restVars>>
    /\ UNCHANGED <<tokFile, variant, maxTokensArg, maxTokens, hasCb, ids, t,
                   outText, ctxDone, inputs, runs, appended, lastID, cbLog>>

\* session.Run fails, or its output is not a float32 tensor of rank 3
GenerateRunFail ==
    /\ variant = "Generate"
    /\ RunCompletes
    /\ \E e \in {"run", "type", "shape"} : Return("", e, "error")
    /\ UNCHANGED <<embVars, restVars>>
    /\ UNCHANGED <<tokFile, variant, maxTokensArg, maxTokens, hasCb, ids, t,
                   outText, ctxDone, inputs, runs, appended, lastID, cbLog>>

\* session.Run succeeds; row is the logits row of the last position
GenerateRunOK ==
    /\ variant = "Generate"
    /\ RunCompletes
    /\ \E row \in LogitRows :
        LET nextID == argmax(row)
            ids2   == AppendSlide(ids, nextID)
        IN /\ ids' = ids2
           /\ appended' = appended + 1
           /\ lastID' = nextID
           /\ IF IsEOS(tok, nextID)
              THEN /\ Return(Decode(tok, ids2), "nil", "eos")
                   /\ t' = t
              ELSE /\ t' = t + 1
                   /\ pc' = "loop"
                   /\ UNCHANGED <<result, err, exit>>
    /\ UNCHANGED <<embVars, restVars>>
    /\ UNCHANGED <<tokFile, variant, maxTokensArg, maxTokens, hasCb, outText,
                   ctxDone, inputs, runs, cbLog>>

GenerateWithCallbackCall ==
    /\ pc = "idle" /\ embPc = "idle"
    /\ \E prompt \in Prompts, m \in MaxTokensArgs, cb \in BOOLEAN :
        Enter("GenerateWithCallback", prompt, m, cb)

\* t < maxTokens is false: return outText, nil
GenerateWithCallbackLoopExit ==
    /\ pc = "loop" /\ variant = "GenerateWithCallback"
    /\ ~(t < maxTokens)
    /\ Return(outText, "nil", "budget")
    /\ UNCHANGED <<embVars, restVars>>
    /\ UNCHANGED <<tokFile, variant, maxTokensArg, maxTokens, hasCb, ids, t,
                   outText, ctxDone, inputs, runs, runsAfterCancel, appended,
                   lastID, cbLog>>

\* mutation: the cancellation is reported without an error
GenerateWithCallbackCancelled_NilError ==
    /\ pc = "loop" /\ variant = "GenerateWithCallback"
    /\ t < maxTokens
    /\ ctxDone
    /\ Return(outText, "nil", "cancelled")
    /\ UNCHANGED <<embVars, restVars>>
    /\ UNCHANGED <<tokFile, variant, maxTokensArg, maxTokens, hasCb, ids, t,
                   outText, ctxDone, inputs, runs, runsAfterCancel, appended,
                   lastID, cbLog>>

\* select { case <-ctx.Done(): return outText, ctx.Err(); default: }
GenerateWithCallbackCancelled ==
    /\ pc = "loop" /\ variant = "GenerateWithCallback"
    /\ t < maxTokens
    /\ ctxDone
    /\ Return(outText, "ctx", "cancelled")
    /\ UNCHANGED <<embVars, restVars>>
    /\ UNCHANGED <<tokFile, variant, maxTokensArg, maxTokens, hasCb, ids, t,
                   outText, ctxDone, inputs, runs, runsAfterCancel, appended,
                   lastID, cbLog>>

GenerateWithCallbackTensorFail ==
    /\ pc = "loop" /\ variant = "GenerateWithCallback"
    /\ t < maxTokens
    /\ ~ctxDone
    /\ Return(outText, "tensor", "error")
    /\ UNCHANGED <<embVars, restVars>>
    /\ UNCHANGED <<tokFile, variant, maxTokensArg, maxTokens, hasCb, ids, t,
                   outText, ctxDone, inputs, runs, runsAfterCancel, appended,
                   lastID, cbLog>>

GenerateWithCallbackRunStart ==
    /\ pc = "loop" /\ variant = "GenerateWithCallback"
    /\ t < maxTokens
    /\ ~ctxDone
    /\ inputs' = BuildTensors(ids)
    /\ runs' = runs + 1
    /\ pc' = "running"
    /\ UNCHANGED <<embVars, restVars>>
    /\ UNCHANGED <<tokFile, variant, maxTokensArg, maxTokens, hasCb, ids, t,
                   outText, ctxDone, runsAfterCancel, appended, lastID, cbLog,
                   result, err, exit>>

GenerateWithCallbackRunFail ==
    /\ variant = "GenerateWithCallback"
    /\ RunCompletes
    /\ \E e \in {"run", "type", "shape"} : Return(outText, e, "error")
    /\ UNCHANGED <<embVars, restVars>>
    /\ UNCHANGED <<tokFile, variant, maxTokensArg, maxTokens, hasCb, ids, t,
                   outText, ctxDone, inputs, runs, appended, lastID, cbLog>>

GenerateWithCallbackRunOK ==
    /\ variant = "GenerateWithCallback"
    /\ RunCompletes
    /\ \E row \in LogitRows :
        LET nextID == argmax(row)
            ids2   == Append(ids, nextID)
        IN /\ ids' = ids2
           /\ appended' = appended + 1
           /\ lastID' = nextID
           /\ IF IsEOS(tok, nextID)
              THEN /\ Return(outText, "nil", "eos")
                   /\ UNCHANGED <<t, outText, cbLog>>
              ELSE /\ outText' = Decode(tok, ids2)
                   /\ cbLog' = IF hasCb THEN Append(cbLog, Decode(tok, ids2)) ELSE cbLog
                   /\ t' = t + 1
                   /\ pc' = "loop"
                   /\ UNCHANGED <<result, err, exit>>
    /\ UNCHANGED <<embVars, restVars>>
    /\ UNCHANGED <<tokFile, variant, maxTokensArg, maxTokens, hasCb, ctxDone,
                   inputs, runs>>

\* the caller's context is cancelled or its deadline passes
Cancel ==
    /\ pc \in {"loop", "running"}
    /\ ~ctxDone
    /\ ctxDone' = TRUE
    /\ UNCHANGED <<embVars, restVars>>
    /\ UNCHANGED <<tokFile, pc, variant, maxTokensArg, maxTokens, hasCb, ids, t,
                   outText, inputs, runs, runsAfterCancel, appended, lastID,
                   cbLog, result, err, exit>>

\* the handler is done with the result; the next request may arrive
NextRequest ==
    /\ pc = "returned"
    /\ pc' = "idle"
    /\ variant' = "none"
    /\ maxTokensArg' = 0
    /\ maxTokens' = 0
    /\ hasCb' = FALSE
    /\ ids' = <<>>
    /\ t' = 0
    /\ outText' = ""
    /\ ctxDone' = FALSE
    /\ inputs' = NoTensors
    /\ runs' = 0
    /\ runsAfterCancel' = 0
    /\ appended' = 0
    /\ lastID' = -1
    /\ cbLog' = <<>>
    /\ result' = ""
    /\ err' = "nil"
    /\ exit' = "none"
    /\ UNCHANGED <<tokFile, embVars, restVars>>

(***************************************************************************)
(* miniLMOnnx.Embed                                                        *)
(***************************************************************************)
EmbedReturn(out, e) ==
    /\ embOut' = out
    /\ embName' = ModelName
    /\ embErr' = e
    /\ embPc' = "returned"

\* if len(inputs) == 0 { return nil, "all-MiniLM-L6-v2", nil }
EmbedEmpty ==
    /\ embPc = "idle" /\ pc = "idle" /\ backend = "onnx"
    /\ EmbedReturn(NilVectors, "nil")
    /\ UNCHANGED <<embFile, embIDs, embMasks, embTTI, embRuns>>
    /\ UNCHANGED <<genVars, restVars>>

\* tokenization, then one of the three ort.NewTensor calls fails
EmbedTensorFail ==
    /\ embPc = "idle" /\ pc = "idle" /\ backend = "onnx"
    /\ \E texts \in EmbInputs :
        /\ Len(texts) > 0
        /\ LET enc == batchTokenize(wordPiece, texts, miniLMMaxLen)
           IN /\ embIDs' = [i \in 1..Len(texts) |-> enc[i].ids]
              /\ embMasks' = [i \in 1..Len(texts) |-> enc[i].mask]
              /\ embTTI' = <<>>
    /\ EmbedReturn(NilVectors, "tensor")
    /\ UNCHANGED <<embFile, embRuns>>
    /\ UNCHANGED <<genVars, restVars>>

\* tokenization, the three tensors, and session.Run is entered
EmbedRunStart ==
    /\ embPc = "idle" /\ pc = "idle" /\ backend = "onnx"
    /\ \E texts \in EmbInputs :
        /\ Len(texts) > 0
        /\ LET enc == batchTokenize(wordPiece, texts, miniLMMaxLen)
           IN /\ embIDs' = [i \in 1..Len(texts) |-> enc[i].ids]
              /\ embMasks' = [i \in 1..Len(texts) |-> enc[i].mask]
              /\ embTTI' = [i \in 1..Len(texts) |-> [j \in 1..miniLMMaxLen |-> 0]]
    /\ embRuns' = embRuns + 1
    /\ embPc' = "running"
    /\ UNCHANGED <<embFile, embOut, embName, embErr>>
    /\ UNCHANGED <<genVars, restVars>>

\* session.Run fails, or its output is not a float32 tensor of rank 3
EmbedRunFail ==
    /\ embPc = "running"
    /\ \E e \in {"run", "type", "shape"} : EmbedReturn(NilVectors, e)
    /\ UNCHANGED <<embFile, embIDs, embMasks, embTTI, embRuns>>
    /\ UNCHANGED <<genVars, restVars>>

\* session.Run succeeds: pooling and normalisation of every batch item
EmbedRunOK ==
    /\ embPc = "running"
    /\ \E vecs \in PooledOutputs(embMasks) :
        EmbedReturn([isNil |-> FALSE, vecs |-> vecs], "nil")
    /\ UNCHANGED <<embFile, embIDs, embMasks, embTTI, embRuns>>
    /\ UNCHANGED <<genVars, restVars>>

\* the handler is done with the vectors; the next request may arrive
EmbedNextRequest ==
    /\ embPc = "returned"
    /\ embPc' = "idle"
    /\ embIDs' = <<>>
    /\ embMasks' = <<>>
    /\ embTTI' = <<>>
    /\ embRuns' = 0
    /\ embOut' = NilVectors
    /\ embName' = ""
    /\ embErr' = "nil"
    /\ UNCHANGED embFile
    /\ UNCHANGED <<genVars, restVars>>

vars == <<genVars, embVars, restVars>>

\* The generation service alone; the embedding service stays idle.
Init == InitGen /\ InitEmb /\ embFile = 1 /\ InitRest /\ backend = "onnx"

Next ==
    \/ GenerateCall
    \/ GenerateLoopExit
    \/ GenerateTensorFail
    \/ GenerateRunStart
    \/ GenerateRunFail
    \/ GenerateRunOK
    \/ GenerateWithCallbackCall
    \/ GenerateWithCallbackLoopExit
    \/ GenerateWithCallbackCancelled
    \/ GenerateWithCallbackTensorFail
    \/ GenerateWithCallbackRunStart
    \/ GenerateWithCallbackRunFail
    \/ GenerateWithCallbackRunOK
    \/ Cancel
    \/ NextRequest

Spec == Init /\ [][Next]_vars

\* Both services, serving one request at a time.  The services share no
\* state, so each file of one service is paired with the first file of the
\* other.
InitServices ==
    InitGen /\ InitEmb /\ (tokFile = 1 \/ embFile = 1) /\ InitRest /\ backend = "onnx"

NextServices ==
    \/ GenerateCall
    \/ GenerateLoopExit
    \/ GenerateTensorFail
    \/ GenerateRunStart
    \/ GenerateRunFail
    \/ GenerateRunOK
    \/ GenerateWithCallbackCall
    \/ GenerateWithCallbackLoopExit
    \/ GenerateWithCallbackCancelled
    \/ GenerateWithCallbackTensorFail
    \/ GenerateWithCallbackRunStart
    \/ GenerateWithCallbackRunFail
    \/ GenerateWithCallbackRunOK
    \/ Cancel
    \/ NextRequest
    \/ EmbedEmpty
    \/ EmbedTensorFail
    \/ EmbedRunStart
    \/ EmbedRunFail
    \/ EmbedRunOK
    \/ EmbedNextRequest

SpecServices == InitServices /\ [][NextServices]_vars

\* Every statement of a running call is eventually executed and a
\* session.Run in progress eventually returns: the calls are synchronous.
InCallStep ==
    \/ GenerateLoopExit
    \/ GenerateTensorFail
    \/ GenerateRunStart
    \/ GenerateRunFail
    \/ GenerateRunOK
    \/ GenerateWithCallbackLoopExit
    \/ GenerateWithCallbackCancelled
    \/ GenerateWithCallbackTensorFail
    \/ GenerateWithCallbackRunStart
    \/ GenerateWithCallbackRunFail
    \/ GenerateWithCallbackRunOK

FairSpec == Spec /\ WF_vars(InCallStep)

InCall == pc \in {"loop", "running"}

(***************************************************************************)
(* C1                                                                      *)
(***************************************************************************)
C1_Bounded ==
    (pc # "idle" /\ maxTokensArg >= 1) =>
        /\ runs <= maxTokensArg
        /\ appended <= maxTokensArg
        /\ (tok.eosTokenID >= 0 /\ lastID = tok.eosTokenID)
              => (pc = "returned" /\ exit = "eos")

\* C1: with maxTokens >= 1 either variant starts at most maxTokens session
\* runs and appends at most maxTokens ids, has returned as soon as the selected
\* id is the resolved end-of-sequence id, and every call eventually returns.
C1_GenerateTerminates ==
    /\ []C1_Bounded
    /\ ((InCall /\ maxTokensArg >= 1) ~> (pc = "returned"))

\* a call with budget MaxBudget that stopped on end-of-sequence after one step
C1_Witness ==
    /\ pc = "returned" /\ exit = "eos"
    /\ maxTokensArg = MaxBudget /\ runs = 1 /\ appended = 1
    /\ tok.eosTokenID >= 0 /\ lastID = tok.eosTokenID

C4_CancelStopsWithinOneRun == runsAfterCancel <= 1

(***************************************************************************)
(* C5                                                                      *)
(***************************************************************************)
\* C5: in either variant the live sequence, and so the width of the tensors
\* handed to the session, never exceeds maxLen.
C5_WindowBounded ==
    /\ Len(ids) <= maxLen
    /\ inputs.shape[2] <= maxLen

(***************************************************************************)
(* C6                                                                      *)
(***************************************************************************)
\* C6: however the loop is left (end-of-sequence, budget, cancellation) the
\* returned text is Decode of the entire final sequence, the id appended on
\* the last step included.
C6_ReturnsDecodeOfFinalSequence ==
    (pc = "returned" /\ exit \in {"eos", "budget", "cancelled"}) =>
        result = Decode(tok, ids)

(***************************************************************************)
(* C7                                                                      *)
(***************************************************************************)
\* C7: with a non-nil callback there is one invocation per executed step, the
\* end-of-sequence step included, and the k-th invocation receives the
\* decoding of the whole sequence as it was after the k-th append.
C7_CallbackAfterEveryStep ==
    (variant = "GenerateWithCallback" /\ hasCb) =>
        /\ Len(cbLog) = appended
        /\ \A k \in 1..Len(cbLog) :
              cbLog[k] = Decode(tok, SubSeq(ids, 1, Len(ids) - appended + k))

NoEOSEntry(file) ==
    \A i \in 1..Len(file.added) : ~DenotesEOS(file.added[i].Content)

\* C9: when no added token denotes end-of-text, IsEOS is false for every id,
\* no call leaves its loop through the end-of-sequence exit, and a call that
\* returns without error has run exactly its budget of steps.
C9_NoEOSRunsFullBudget ==
    NoEOSEntry(TokFiles[tokFile]) =>
        /\ \A id \in (-1)..LogitsVocab : ~IsEOS(tok, id)
        /\ exit # "eos"
        /\ (pc = "returned" /\ err = "nil") =>
              (runs = maxTokens /\ appended = maxTokens /\ t = maxTokens)

C9_Witness ==
    /\ NoEOSEntry(TokFiles[tokFile])
    /\ pc = "returned" /\ err = "nil"
    /\ maxTokens = MaxBudget /\ runs = MaxBudget

(***************************************************************************)
(* C10                                                                     *)
(***************************************************************************)
\* C10: Encode never returns an empty sequence and returns the single id 0
\* for a text without any token; every row built by the WordPiece encode has
\* at least one position with mask 1.
C10_EncodeNeverEmpty ==
    /\ pc # "idle" => Len(ids) >= 1
    /\ (pc = "idle" /\ embPc = "idle") =>
          \A p \in Prompts :
              /\ Len(Encode(tok, p)) >= 1
              /\ Fields(p) = <<>> => Encode(tok, p) = <<0>>
    /\ \A i \in 1..Len(embMasks) :
          /\ Len(embIDs[i]) = miniLMMaxLen
          /\ \E j \in 1..Len(embMasks[i]) : embMasks[i][j] = 1

\* an Embed call whose batch holds a text without any letter or digit
C10_Witness ==
    /\ embPc = "running"
    /\ Len(embMasks) = MaxBatch
    /\ \E i \in 1..Len(embMasks) :
          /\ embIDs[i][1] = wordPiece.clsID /\ embIDs[i][2] = wordPiece.sepID
          /\ embMasks[i][1] = 1 /\ embMasks[i][2] = 1
          /\ \A j \in 3..miniLMMaxLen : embMasks[i][j] = 0

(***************************************************************************)
(* The WordPiece path step by step: encode, and the loop of tokenizeWord   *)
(***************************************************************************)
\* mutation: the inner loop counts end up from 1, so the shortest prefix wins
FindEnd_Shortest(wp, w, out) ==
    LET hits == {e \in 1..Len(w) : Concat(Candidate(w, out, e)) \in DOMAIN wp.vocab}
    IN IF hits = {} THEN 0 ELSE CHOOSE e \in hits : \A f \in hits : e <= f

\* the inner loop of tokenizeWord: end counts down from len(tok) to the first
\* candidate found in the vocabulary; 0 when the loop runs out (found = false)
FindEnd(wp, w, out) ==
    LET RECURSIVE Down(_)
        Down(end) ==
            IF end <= 0 THEN 0
            ELSE IF Concat(Candidate(w, out, end)) \in DOMAIN wp.vocab THEN end
            ELSE Down(end - 1)
    IN Down(Len(w))

\* if strings.HasPrefix(cur, "##") { cur = cur[2:] }
StripMarker(c) == IF HasMarker(c) THEN SubSeq(c, 3, Len(c)) ELSE c

\* mutation: the tail of the wrapped sequence is kept instead of its head
encodeRows_KeepsTail(wp, pieces, n) ==
    LET full == <<wp.clsID>> \o pieces \o <<wp.sepID>>
        seq  == IF Len(full) > n THEN SubSeq(full, Len(full) - n + 1, Len(full)) ELSE full
    IN [ ids  |-> [i \in 1..n |-> IF i <= Len(seq) THEN seq[i] ELSE 0],
         mask |-> [i \in 1..n |-> IF i <= Len(seq) THEN 1 ELSE 0] ]

\* lines 158-166 of encode: wrap, cut to maxLen, copy, zero the rest
encodeRows(wp, pieces, n) ==
    LET full == <<wp.clsID>> \o pieces \o <<wp.sepID>>
        seq  == IF Len(full) > n THEN SubSeq(full, 1, n) ELSE full
    IN [ ids  |-> [i \in 1..n |-> IF i <= Len(seq) THEN seq[i] ELSE 0],
         mask |-> [i \in 1..n |-> IF i <= Len(seq) THEN 1 ELSE 0] ]

\* toks := basicTokens(text)
encodeCall ==
    /\ wpPc = "idle"
    /\ \E text \in EmbTexts :
        /\ wpText' = text
        /\ wpToks' = basicTokens(text)
    /\ wpPieces' = <<>>
    /\ wpPc' = "words"
    /\ UNCHANGED <<wpWord, wpTok, wpOut, wpCur, wpFailed, wpRow>>
    /\ UNCHANGED wpOthers

\* for _, w := range toks: tokenizeWord(w) is entered
tokenizeWordCall ==
    /\ wpPc = "words"
    /\ wpToks # <<>>
    /\ wpWord' = Head(wpToks)
    /\ wpTok' = Head(wpToks)
    /\ wpOut' = <<>>
    /\ wpCur' = <<>>
    /\ wpFailed' = FALSE
    /\ wpPc' = "word"
    /\ UNCHANGED <<wpText, wpToks, wpPieces, wpRow>>
    /\ UNCHANGED wpOthers

\* one iteration of the outer loop in which a candidate is found
tokenizeWordMatch ==
    /\ wpPc = "word"
    /\ Len(wpTok) > 0
    /\ LET end == FindEnd(wordPiece, wpTok, wpOut)
       IN /\ end > 0
          /\ LET cand == Candidate(wpTok, wpOut, end)
                 cur  == StripMarker(cand)
             IN /\ wpOut' = Append(wpOut, wordPiece.vocab[Concat(cand)])
                /\ wpCur' = Append(wpCur, cand)
                /\ wpTok' = SubSeq(wpTok, Len(cur) + 1, Len(wpTok))
    /\ UNCHANGED <<wpPc, wpText, wpToks, wpWord, wpFailed, wpPieces, wpRow>>
    /\ UNCHANGED wpOthers

\* if !found { out = append(out, w.unkID); break }, and the return
tokenizeWordUnknown ==
    /\ wpPc = "word"
    /\ Len(wpTok) > 0
    /\ FindEnd(wordPiece, wpTok, wpOut) = 0
    /\ wpOut' = Append(wpOut, wordPiece.unkID)
    /\ wpFailed' = TRUE
    /\ wpPieces' = wpPieces \o Append(wpOut, wordPiece.unkID)
    /\ wpToks' = Tail(wpToks)
    /\ wpPc' = "words"
    /\ UNCHANGED <<wpText, wpWord, wpTok, wpCur, wpRow>>
    /\ UNCHANGED wpOthers

\* len(tok) > 0 is false: return out
tokenizeWordReturn ==
    /\ wpPc = "word"
    /\ Len(wpTok) = 0
    /\ wpPieces' = wpPieces \o wpOut
    /\ wpToks' = Tail(wpToks)
    /\ wpPc' = "words"
    /\ UNCHANGED <<wpText, wpWord, wpTok, wpOut, wpCur, wpFailed, wpRow>>
    /\ UNCHANGED wpOthers

\* the range over toks is exhausted: the rest of encode
encodeReturn ==
    /\ wpPc = "words"
    /\ wpToks = <<>>
    /\ wpRow' = encodeRows(wordPiece, wpPieces, miniLMMaxLen)
    /\ wpPc' = "done"
    /\ UNCHANGED <<wpText, wpToks, wpWord, wpTok, wpOut, wpCur, wpFailed, wpPieces>>
    /\ UNCHANGED wpOthers

\* the caller has taken the rows; encode is called for the next text
encodeNext ==
    /\ wpPc = "done"
    /\ wpPc' = "idle"
    /\ wpText' = <<>>
    /\ wpWord' = <<>>
    /\ wpTok' = <<>>
    /\ wpOut' = <<>>
    /\ wpCur' = <<>>
    /\ wpFailed' = FALSE
    /\ wpPieces' = <<>>
    /\ wpRow' = NoRow
    /\ UNCHANGED wpToks
    /\ UNCHANGED wpOthers

InitWordPiece == InitGen /\ tokFile = 1 /\ InitEmb /\ InitRest /\ backend = "onnx"

NextWordPiece ==
    \/ encodeCall
    \/ tokenizeWordCall
    \/ tokenizeWordMatch
    \/ tokenizeWordUnknown
    \/ tokenizeWordReturn
    \/ encodeReturn
    \/ encodeNext

SpecWordPiece == InitWordPiece /\ [][NextWordPiece]_vars

\* encode is a synchronous call: each of its statements is eventually executed
encodeStep ==
    \/ tokenizeWordCall
    \/ tokenizeWordMatch
    \/ tokenizeWordUnknown
    \/ tokenizeWordReturn
    \/ encodeReturn

FairWordPiece == SpecWordPiece /\ WF_vars(encodeStep)

\* the number of positions of a mask row that are 1
Ones(mask) == Cardinality({i \in 1..Len(mask) : mask[i] = 1})

\* the length of the real token sequence of a finished encode call
RealLen ==
    IF Len(wpPieces) + 2 < miniLMMaxLen THEN Len(wpPieces) + 2 ELSE miniLMMaxLen

(***************************************************************************)
(* C11                                                                     *)
(***************************************************************************)
\* C11: encode returns an id row and a mask row of length exactly maxLen; the
\* real sequence is [CLS] + pieces + [SEP] cut to its first maxLen ids, so the
\* positions with mask 1 are the first min(pieces + 2, maxLen) ones and hold
\* those ids.
C11_RowsHaveWidthMaxLen ==
    wpPc = "done" =>
        LET full == <<wordPiece.clsID>> \o wpPieces \o <<wordPiece.sepID>>
        IN /\ Len(wpRow.ids) = miniLMMaxLen
           /\ Len(wpRow.mask) = miniLMMaxLen
           /\ wpPieces = Pieces(wordPiece, basicTokens(wpText))
           /\ \A i \in 1..RealLen : wpRow.ids[i] = full[i] /\ wpRow.mask[i] = 1
           /\ Ones(wpRow.mask) = RealLen
           /\ Ones(wpRow.mask) <= miniLMMaxLen
           /\ wpRow = encode(wordPiece, wpText, miniLMMaxLen)

\* an encode call whose wrapped sequence is longer than maxLen
C11_Witness ==
    /\ wpPc = "done"
    /\ Len(wpPieces) + 2 > miniLMMaxLen
    /\ Ones(wpRow.mask) = miniLMMaxLen

(***************************************************************************)
(* C12                                                                     *)
(***************************************************************************)
\* C12: every position at or after the end of the real sequence holds the
\* vocabulary's resolved pad id with mask 0, every position before it has
\* mask 1, and the token-type rows are zero everywhere.
C12_PaddedWithPadID ==
    /\ wpPc = "done" =>
          \A i \in 1..miniLMMaxLen :
              IF i <= RealLen
              THEN wpRow.mask[i] = 1
              ELSE wpRow.mask[i] = 0 /\ wpRow.ids[i] = wordPiece.padID
    /\ \A i \in 1..Len(embTTI) : \A j \in 1..Len(embTTI[i]) : embTTI[i][j] = 0

(***************************************************************************)
(* C13                                                                     *)
(***************************************************************************)
\* the characters of the word consumed before the k-th matched candidate
RECURSIVE Consumed(_)
Consumed(k) == IF k <= 1 THEN 0 ELSE Consumed(k - 1) + Len(StripMarker(wpCur[k - 1]))

\* the candidate for the prefix of length e of the remainder at the k-th search
CandidateAt(k, e) ==
    LET sub == SubSeq(wpWord, Consumed(k) + 1, Consumed(k) + e)
    IN IF k > 1 THEN <<"#", "#">> \o sub ELSE sub

C13_GreedyLongestPrefix ==
    wpWord # <<>> =>
        LET n == Len(wpCur)
        IN /\ Len(wpOut) = n + (IF wpFailed THEN 1 ELSE 0)
           /\ wpTok = SubSeq(wpWord, Consumed(n + 1) + 1, Len(wpWord))
           /\ \A k \in 1..n :
                 LET len == Len(StripMarker(wpCur[k]))
                 IN /\ len >= 1
                    /\ wpCur[k] = CandidateAt(k, len)
                    /\ Concat(wpCur[k]) \in DOMAIN wordPiece.vocab
                    /\ wpOut[k] = wordPiece.vocab[Concat(wpCur[k])]
                    /\ \A e \in (len + 1)..(Len(wpWord) - Consumed(k)) :
                          Concat(CandidateAt(k, e)) \notin DOMAIN wordPiece.vocab
           /\ wpFailed =>
                 /\ wpPc # "word"
                 /\ wpOut[n + 1] = wordPiece.unkID
                 /\ Len(wpTok) > 0
                 /\ \A e \in 1..Len(wpTok) :
                       Concat(CandidateAt(n + 1, e)) \notin DOMAIN wordPiece.vocab
           /\ (wpPc # "word" /\ ~wpFailed) => wpTok = <<>>
           /\ wpPc # "word" => wpOut = tokenizeWord(wordPiece, wpWord)

\* C13: tokenizeWord takes, again and again, the longest prefix of the
\* remainder that is in the vocabulary (the first piece as it is, later pieces
\* with "##" prepended); on the first remainder without any matching prefix it
\* appends one unknown id and stops; and every call returns.
C13_TokenizeWord ==
    /\ [](C13_GreedyLongestPrefix = TRUE)
    /\ ((wpPc = "word") ~> (wpPc = "words"))

\* a word of which one piece was matched before a search failed
C13_Witness ==
    /\ wpPc = "words"
    /\ wpFailed
    /\ Len(wpCur) >= 1
    /\ Len(wpOut) = Len(wpCur) + 1

(***************************************************************************)
(* The hash embedders: hash/fnv, xorshift32 and the two embedOne           *)
(***************************************************************************)
\* the dimension both hash embedders are constructed with
dim == 384

\* the byte of a character (all texts are ASCII)
Byte(c) ==
    CASE c = " " -> 32 [] c = "$" -> 36 [] c = "1" -> 49 [] c = "2" -> 50
      [] c = "B" -> 66 [] c = "^" -> 94 [] c = "_" -> 95 [] c = "a" -> 97
      [] c = "b" -> 98 [] c = "l" -> 108 [] c = "t" -> 116 [] c = "!" -> 33

\* A uint32 is kept as <<high 16 bits, low 16 bits>>.
\* the exclusive or of bits 0..i of a and b
RECURSIVE XorBits(_, _, _)
XorBits(a, b, i) ==
    IF i < 0 THEN 0
    ELSE ((((a \div (2 ^ i)) + (b \div (2 ^ i))) % 2) * (2 ^ i)) + XorBits(a, b, i - 1)

U32Xor(x, y) == <<XorBits(x[1], y[1], 15), XorBits(x[2], y[2], 15)>>

U32Add(x, y) ==
    LET lo == x[2] + y[2]
    IN <<(x[1] + y[1] + (lo \div 65536)) % 65536, lo % 65536>>

\* x << k for k < 16
U32Shl(x, k) ==
    LET p  == 2 ^ k
        lo == x[2] * p
    IN <<((x[1] * p) + (lo \div 65536)) % 65536, lo % 65536>>

\* x >> 17
U32Shr17(x) == <<0, x[1] \div 2>>

\* x * 16777619 (the 32-bit FNV prime, 2^24 + 403)
U32MulPrime(x) ==
    LET lo == x[2] * 403
    IN <<((x[1] * 403) + (lo \div 65536) + ((x[2] % 256) * 256)) % 65536, lo % 65536>>

\* x % uint32(h.dim): 65536 % 384 = 256
U32ModDim(x) == ((x[1] * (65536 % dim)) + x[2]) % dim

\* fnv.New32a(): offset basis 0x811c9dc5; per byte, xor then multiply
RECURSIVE fnv32aFrom(_, _, _)
fnv32aFrom(h, s, i) ==
    IF i > Len(s) THEN h
    ELSE fnv32aFrom(U32MulPrime(U32Xor(h, <<0, Byte(s[i])>>)), s, i + 1)

hash(s) == fnv32aFrom(<<33052, 40389>>, s, 1)

xorshift32(x) ==
    LET a == U32Xor(x, U32Shl(x, 13))
        b == U32Xor(a, U32Shr17(a))
    IN U32Xor(b, U32Shl(b, 5))

\* uint32(j) * 0x9e3779b9
U32MulGolden(j) ==
    LET lo == j * 31161
    IN <<((j * 40503) + (lo \div 65536)) % 65536, lo % 65536>>

\* wordRE.FindAllString(s, -1) for `\pL+|\pN+`: the maximal runs of letters and
\* the maximal runs of digits, in order
RECURSIVE wordREFrom(_, _, _, _)
wordREFrom(s, i, cur, out) ==
    LET flushed == IF cur = <<>> THEN out ELSE Append(out, cur)
    IN IF i > Len(s) THEN flushed
       ELSE IF IsLetter(s[i])
            THEN IF cur # <<>> /\ IsLetter(cur[1])
                 THEN wordREFrom(s, i + 1, Append(cur, s[i]), out)
                 ELSE wordREFrom(s, i + 1, <<s[i]>>, flushed)
       ELSE IF IsDigit(s[i])
            THEN IF cur # <<>> /\ IsDigit(cur[1])
                 THEN wordREFrom(s, i + 1, Append(cur, s[i]), out)
                 ELSE wordREFrom(s, i + 1, <<s[i]>>, flushed)
       ELSE wordREFrom(s, i + 1, <<>>, flushed)

wordRE(s) == wordREFrom(s, 1, <<>>, <<>>)

\* A vector of dimension dim is kept exactly: num holds its nonzero
\* components before the final scaling (indexed from 0), and normalized tells
\* whether every component was then multiplied by 1/norm.
NoComponents == [i \in {} |-> 0]

ZeroVec == [dim |-> dim, num |-> NoComponents, normalized |-> FALSE]

\* vec[idx] += c
AddAt(num, idx, c) ==
    LET new == (IF idx \in DOMAIN num THEN num[idx] ELSE 0) + c
    IN IF new = 0
       THEN [i \in DOMAIN num \ {idx} |-> num[i]]
       ELSE [i \in DOMAIN num \cup {idx} |-> IF i = idx THEN new ELSE num[i]]

\* the loop over tokens of hashEmbedder.embedOne
RECURSIVE hashAccumulate(_, _, _)
hashAccumulate(tokens, i, num) ==
    IF i > Len(tokens) THEN num
    ELSE LET idx  == U32ModDim(hash(tokens[i]))
             sign == IF hash(tokens[i] \o <<"_", "a", "l", "t">>)[2] % 2 = 1 THEN -1 ELSE 1
         IN hashAccumulate(tokens, i + 1, AddAt(num, idx, sign))

\* mutation: the accumulated buckets are returned without the division
hashEmbedOne_NoNormalize(text) ==
    LET tokens == wordRE(ToLower(text))
    IN IF Len(tokens) = 0 THEN ZeroVec
       ELSE [dim |-> dim, num |-> hashAccumulate(tokens, 1, NoComponents),
             normalized |-> FALSE]

\* hashEmbedder.embedOne: the buckets of the tokens, divided by their norm
\* when it is positive
hashEmbedOne(text) ==
    LET tokens == wordRE(ToLower(text))
    IN IF Len(tokens) = 0 THEN ZeroVec
       ELSE LET num == hashAccumulate(tokens, 1, NoComponents)
            IN [dim |-> dim, num |-> num, normalized |-> DOMAIN num # {}]

\* fallbackTokens: the maximal runs of letters and digits of the lower-cased text
fallbackTokens(s) == BasicFrom(ToLower(s), 1, <<>>, <<>>)

charNGrams(token, n) ==
    LET marked == <<"^">> \o token \o <<"$">>
    IN IF n <= 0 THEN <<>>
       ELSE IF Len(marked) < n THEN <<marked>>
       ELSE [i \in 1..(Len(marked) - n + 1) |-> SubSeq(marked, i, i + n - 1)]

RECURSIVE FlattenGrams(_, _)
FlattenGrams(items, i) ==
    IF i > Len(items) THEN <<>> ELSE charNGrams(items[i], 3) \o FlattenGrams(items, i + 1)

\* character 3-grams of each token, then of each pair of neighbours
Features(tokens) ==
    FlattenGrams(tokens, 1)
    \o FlattenGrams([i \in 1..(Len(tokens) - 1) |-> tokens[i] \o <<"_">> \o tokens[i + 1]], 1)

\* const k = 16
kProjections == 16

\* The k-projection loop for one feature: x and vec after j iterations.  A
\* component grows by sgn*mag*w
\* with mag = 0.5 + m/32767*0.5 = (32767 + m)/65534; num counts it in units of
\* w/65534, so it stays an integer.
\* one iteration of the loop over j
ProjectStep(p, j) ==
    LET x1  == xorshift32(U32Add(p.x, U32MulGolden(j)))
        idx == U32ModDim(x1)
        x2  == xorshift32(U32Xor(x1, <<34283, 51819>>))
        sgn == IF x2[2] % 2 = 1 THEN -1 ELSE 1
        m   == (x2[2] \div 2) % 32768
    IN [x |-> x1, num |-> AddAt(p.num, idx, sgn * (32767 + m))]

\* x and vec after j iterations, starting from x = base and vec = num; each
\* iteration is applied to the value the one before it produced
RECURSIVE Project(_, _, _)
Project(base, num, j) ==
    IF j = 0 THEN [x |-> base, num |-> num]
    ELSE CHOOSE r \in {ProjectStep(p, j - 1) : p \in {Project(base, num, j - 1)}} : TRUE

\* the loop over features: the vector after the first i of them
RECURSIVE compatAccumulate(_, _)
compatAccumulate(features, i) ==
    IF i = 0 THEN NoComponents
    ELSE CHOOSE r \in {Project(hash(features[i]), num, kProjections).num :
                         num \in {compatAccumulate(features, i - 1)}} : TRUE

\* the tokens miniLMCompat.embedOne works on
compatTokens(text) ==
    LET tokens == wordRE(ToLower(text))
    IN IF Len(tokens) = 0 THEN fallbackTokens(text) ELSE tokens

\* vec[h.hash(text) % dim] = 1
ForcedBucket(text) ==
    [dim |-> dim, num |-> [i \in {U32ModDim(hash(text))} |-> 1], normalized |-> FALSE]

\* miniLMCompat.embedOne
compatEmbedOne(text) ==
    LET tokens == compatTokens(text)
    IN IF Len(tokens) = 0 THEN ZeroVec
       ELSE LET features == Features(tokens)
            IN IF Len(features) = 0 THEN ZeroVec
               ELSE LET num == compatAccumulate(features, Len(features))
                    IN IF DOMAIN num # {}
                       THEN [dim |-> dim, num |-> num, normalized |-> TRUE]
                       ELSE ForcedBucket(text)

\* the texts the hash embedders are called with: empty, without any letter or
\* digit, one word, two words, a letter run followed by a digit run
HashTexts == { <<>>, <<"!">>, <<"a">>, <<"a", " ", "B">>, <<"a", "1">> }

\* largest number of texts in one Embed call of a hash embedder
MaxInputs == 2

HashInputs == UNION {[1..n -> HashTexts] : n \in 0..MaxInputs}

Backends == {"onnx", "hash", "compat"}

\* embedOne of either hash embedder, computed once for every text
hashVectors == [txt \in HashTexts |-> hashEmbedOne(txt)]

compatVectors == [txt \in HashTexts |-> compatEmbedOne(txt)]

embedOne(b, text) == IF b = "hash" THEN hashVectors[text] ELSE compatVectors[text]

\* an entry of out that was never assigned
NilVec == [dim |-> 0, num |-> NoComponents, normalized |-> FALSE]

\* out := make([][]float32, len(inputs)) and the entry of the range loop
HashEmbedEnter(texts) ==
    /\ hInputs' = texts
    /\ hOut' = [i \in 1..Len(texts) |-> NilVec]
    /\ hI' = 0
    /\ hPc' = "loop"
    /\ UNCHANGED <<backend, hName, hErr, hSeen>>

\* return out, h.modelName, nil
HashEmbedReturn(name) ==
    /\ hName' = name
    /\ hErr' = "nil"
    /\ hPc' = "returned"
    /\ UNCHANGED <<backend, hInputs, hI, hOut, hSeen>>

hashEmbedderEmbedCall ==
    /\ backend = "hash" /\ hPc = "idle"
    /\ \E texts \in HashInputs : HashEmbedEnter(texts)
    /\ UNCHANGED <<hashOthers, httpVars>>

\* mutation: vec is made once, before the loop, so that an item starts from
\* the components the item before it left
hashEmbedderEmbedItem_SharedVec ==
    /\ backend = "hash" /\ hPc = "loop"
    /\ hI < Len(hInputs)
    /\ LET tokens == wordRE(ToLower(hInputs[hI + 1]))
           before == IF hI = 0 THEN NoComponents ELSE hOut[hI].num
           num    == hashAccumulate(tokens, 1, before)
       IN hOut' = [hOut EXCEPT ![hI + 1] =
                      [dim |-> dim, num |-> num, normalized |-> DOMAIN num # {}]]
    /\ hI' = hI + 1
    /\ UNCHANGED <<backend, hPc, hInputs, hName, hErr, hSeen>>
    /\ UNCHANGED <<hashOthers, httpVars>>

\* out[i] = h.embedOne(s)
hashEmbedderEmbedItem ==
    /\ backend = "hash" /\ hPc = "loop"
    /\ hI < Len(hInputs)
    /\ hOut' = [hOut EXCEPT ![hI + 1] = embedOne("hash", hInputs[hI + 1])]
    /\ hI' = hI + 1
    /\ UNCHANGED <<backend, hPc, hInputs, hName, hErr, hSeen>>
    /\ UNCHANGED <<hashOthers, httpVars>>

hashEmbedderEmbedReturn ==
    /\ backend = "hash" /\ hPc = "loop"
    /\ hI >= Len(hInputs)
    /\ HashEmbedReturn("hash-embeddings-384")
    /\ UNCHANGED <<hashOthers, httpVars>>

miniLMCompatEmbedCall ==
    /\ backend = "compat" /\ hPc = "idle"
    /\ \E texts \in HashInputs : HashEmbedEnter(texts)
    /\ UNCHANGED <<hashOthers, httpVars>>

\* mutation: every item is written to the first entry of out
miniLMCompatEmbedItem_WritesFirst ==
    /\ backend = "compat" /\ hPc = "loop"
    /\ hI < Len(hInputs)
    /\ hOut' = [hOut EXCEPT ![1] = embedOne("compat", hInputs[hI + 1])]
    /\ hI' = hI + 1
    /\ UNCHANGED <<backend, hPc, hInputs, hName, hErr, hSeen>>
    /\ UNCHANGED <<hashOthers, httpVars>>

\* out[i] = h.embedOne(s)
miniLMCompatEmbedItem ==
    /\ backend = "compat" /\ hPc = "loop"
    /\ hI < Len(hInputs)
    /\ hOut' = [hOut EXCEPT ![hI + 1] = embedOne("compat", hInputs[hI + 1])]
    /\ hI' = hI + 1
    /\ UNCHANGED <<backend, hPc, hInputs, hName, hErr, hSeen>>
    /\ UNCHANGED <<hashOthers, httpVars>>

miniLMCompatEmbedReturn ==
    /\ backend = "compat" /\ hPc = "loop"
    /\ hI >= Len(hInputs)
    /\ HashEmbedReturn(ModelName)
    /\ UNCHANGED <<hashOthers, httpVars>>

\* the vectors of the call that returned are remembered for their texts
HashCallDone ==
    /\ hSeen' = [txt \in DOMAIN hSeen \cup {hInputs[i] : i \in 1..Len(hInputs)} |->
                    IF txt \in DOMAIN hSeen THEN hSeen[txt]
                    ELSE hOut[CHOOSE i \in 1..Len(hInputs) : hInputs[i] = txt]]
    /\ hPc' = "idle"
    /\ hInputs' = <<>>
    /\ hI' = 0
    /\ hOut' = <<>>
    /\ hName' = ""
    /\ hErr' = "nil"
    /\ UNCHANGED backend

\* the caller is done with the vectors; the next call may arrive
HashNextRequest ==
    /\ hPc = "returned"
    /\ httpPc = "idle"
    /\ HashCallDone
    /\ UNCHANGED <<hashOthers, httpVars>>

\* A process serves embeddings through one of the three implementations.
InitEmbedders ==
    /\ InitGen /\ tokFile = 1
    /\ InitEmb
    /\ InitRest
    /\ backend \in Backends
    /\ backend # "onnx" => embFile = 1

NextEmbedders ==
    \/ EmbedEmpty
    \/ EmbedTensorFail
    \/ EmbedRunStart
    \/ EmbedRunFail
    \/ EmbedRunOK
    \/ EmbedNextRequest
    \/ hashEmbedderEmbedCall
    \/ hashEmbedderEmbedItem
    \/ hashEmbedderEmbedReturn
    \/ miniLMCompatEmbedCall
    \/ miniLMCompatEmbedItem
    \/ miniLMCompatEmbedReturn
    \/ HashNextRequest

SpecEmbedders == InitEmbedders /\ [][NextEmbedders]_vars

\* every component of the vector is 0
IsZeroVec(v) == DOMAIN v.num = {}

\* The L2 norm of the vector is 1: its components were divided by their
\* norm, or they are integers of which exactly one is 1 or -1.
HasUnitNorm(v) ==
    \/ v.normalized /\ DOMAIN v.num # {}
    \/ /\ ~v.normalized
       /\ Cardinality(DOMAIN v.num) = 1
       /\ \A i \in DOMAIN v.num : v.num[i] \in {1, -1}

\* a vector returned by miniLMOnnx.Embed is all-zero, has unit norm
PooledIsZero(v) == \A d \in 1..HiddenDim : v.sum[d] = 0

PooledHasUnitNorm(v) ==
    v.normalized /\ v.count > 0 /\ \E d \in 1..HiddenDim : v.sum[d] # 0

C16_ZeroOrUnitNorm ==
    /\ hPc = "returned" =>
          \A i \in 1..Len(hOut) : IsZeroVec(hOut[i]) \/ HasUnitNorm(hOut[i])
    /\ (embPc = "returned" /\ ~embOut.isNil) =>
          \A i \in 1..Len(embOut.vecs) :
              LET v == embOut.vecs[i]
              IN /\ PooledIsZero(v) \/ PooledHasUnitNorm(v)
                 /\ PooledIsZero(v) <=> ~v.normalized

\* a call that returned a vector with several nonzero components
C16_Witness ==
    /\ hPc = "returned"
    /\ \E i \in 1..Len(hOut) :
          Cardinality(DOMAIN hOut[i].num) >= 2 /\ hOut[i].normalized

(***************************************************************************)
(* C17                                                                     *)
(***************************************************************************)
\* the vector accumulated for the text has zero magnitude
Degenerate(b, text) == ~embedOne(b, text).normalized

\* C17: a hash embedder applies one policy to every text whose vector has zero
\* magnitude: hashEmbedder returns the all-zero vector, miniLMCompat the forced
\* bucket; and Embed returns no error.
C17_OneDegeneratePolicy ==
    hPc = "returned" =>
        /\ hErr = "nil"
        /\ \A i \in 1..Len(hInputs) :
              Degenerate(backend, hInputs[i]) =>
                  /\ backend = "hash" => IsZeroVec(hOut[i])
                  /\ backend = "compat" => hOut[i] = ForcedBucket(hInputs[i])

(***************************************************************************)
(* handleEmbeddings: POST /v1/embeddings                                   *)
(***************************************************************************)
\* JSON values as json.Decoder leaves them in a field of type any
JString(str) == [type |-> "string", str |-> str]

JNumber == [type |-> "number"]

JObject == [type |-> "object"]

\* null, and what a body without "input" leaves in req.Input
JNull == [type |-> "null"]

JArray(items) == [type |-> "array", items |-> items]

\* the strings requests carry
HttpTexts == { <<>>, <<"a">>, <<"a", " ", "B">> }

JElements == {JString(str) : str \in HttpTexts} \cup {JNumber, JObject, JNull}

JInputs ==
    JElements \cup
    {JArray(items) : items \in UNION {[1..n -> JElements] : n \in 0..MaxInputs}}

\* a body that is not JSON, JSON that is not an object, an object
HttpBodies ==
    {[kind |-> "invalid"], [kind |-> "mismatch"]} \cup
    {[kind |-> "object", input |-> v] : v \in JInputs}

\* json.NewDecoder(...).Decode(&req) returns an error
DecodeFails(body) == body.kind # "object"

IsJString(v) == v.type = "string"

\* the switch on req.Input: the string, or the string elements of the array
RECURSIVE StringsOf(_, _)
StringsOf(items, i) ==
    IF i > Len(items) THEN <<>>
    ELSE IF IsJString(items[i]) THEN <<items[i].str>> \o StringsOf(items, i + 1)
    ELSE StringsOf(items, i + 1)

coerceInputs(v) == IF IsJString(v) THEN <<v.str>> ELSE StringsOf(v.items, 1)

\* http.Error(w, msg, code), or the encoded embeddingsResponse
Respond(body, texts, invoked, status, count) ==
    /\ httpBody' = body
    /\ httpInputs' = texts
    /\ httpInvoked' = invoked
    /\ httpStatus' = status
    /\ httpCount' = count
    /\ httpPc' = "done"

\* http.Error(w, "invalid json", http.StatusBadRequest)
handleEmbeddingsInvalidJSON ==
    /\ httpPc = "idle" /\ hPc = "idle"
    /\ \E body \in HttpBodies :
        /\ DecodeFails(body)
        /\ Respond(body, <<>>, FALSE, 400, 0)
    /\ UNCHANGED <<httpOthers, hashVars>>

\* default: http.Error(w, "input must be string or array of strings", 400)
handleEmbeddingsBadType ==
    /\ httpPc = "idle" /\ hPc = "idle"
    /\ \E body \in HttpBodies :
        /\ ~DecodeFails(body)
        /\ body.input.type \notin {"string", "array"}
        /\ Respond(body, <<>>, FALSE, 400, 0)
    /\ UNCHANGED <<httpOthers, hashVars>>

\* if len(inputs) == 0 { http.Error(w, "no input provided", 400) }
handleEmbeddingsNoInput ==
    /\ httpPc = "idle" /\ hPc = "idle"
    /\ \E body \in HttpBodies :
        /\ ~DecodeFails(body)
        /\ body.input.type \in {"string", "array"}
        /\ coerceInputs(body.input) = <<>>
        /\ Respond(body, <<>>, FALSE, 400, 0)
    /\ UNCHANGED <<httpOthers, hashVars>>

\* d.Embeddings.Embed(r.Context(), inputs) on a hash embedder is entered
handleEmbeddingsEmbed ==
    /\ httpPc = "idle" /\ hPc = "idle"
    /\ backend \in {"hash", "compat"}
    /\ \E body \in HttpBodies :
        /\ ~DecodeFails(body)
        /\ body.input.type \in {"string", "array"}
        /\ coerceInputs(body.input) # <<>>
        /\ httpBody' = body
        /\ httpInputs' = coerceInputs(body.input)
        /\ HashEmbedEnter(coerceInputs(body.input))
    /\ httpInvoked' = TRUE
    /\ httpPc' = "embed"
    /\ UNCHANGED <<httpStatus, httpCount>>
    /\ UNCHANGED httpOthers

\* json.NewEncoder(w).Encode(embeddingsResponse{Model: model, Embeddings: vecs})
handleEmbeddingsEncode ==
    /\ httpPc = "embed" /\ hPc = "returned"
    /\ Respond(httpBody, httpInputs, TRUE, 200, Len(hOut))
    /\ HashCallDone
    /\ UNCHANGED httpOthers

\* The model-backed service is called: it returns an error (a tensor or the
\* session run failed), or one vector per input.
handleEmbeddingsEmbedOnnx ==
    /\ httpPc = "idle" /\ hPc = "idle"
    /\ backend = "onnx"
    /\ \E body \in HttpBodies :
        /\ ~DecodeFails(body)
        /\ body.input.type \in {"string", "array"}
        /\ coerceInputs(body.input) # <<>>
        /\ \/ Respond(body, coerceInputs(body.input), TRUE, 500, 0)
           \/ Respond(body, coerceInputs(body.input), TRUE, 200,
                      Len(coerceInputs(body.input)))
    /\ UNCHANGED <<httpOthers, hashVars>>

\* the response is written; the next request may arrive
HttpNextRequest ==
    /\ httpPc = "done"
    /\ httpPc' = "idle"
    /\ httpBody' = NoBody
    /\ httpInputs' = <<>>
    /\ httpInvoked' = FALSE
    /\ httpStatus' = 0
    /\ httpCount' = 0
    /\ UNCHANGED <<httpOthers, hashVars>>

InitHandleEmbeddings ==
    /\ InitGen /\ tokFile = 1
    /\ InitEmb /\ embFile = 1
    /\ InitRest
    /\ backend \in Backends

NextHandleEmbeddings ==
    \/ handleEmbeddingsInvalidJSON
    \/ handleEmbeddingsBadType
    \/ handleEmbeddingsNoInput
    \/ handleEmbeddingsEmbed
    \/ hashEmbedderEmbedItem
    \/ hashEmbedderEmbedReturn
    \/ miniLMCompatEmbedItem
    \/ miniLMCompatEmbedReturn
    \/ handleEmbeddingsEncode
    \/ handleEmbeddingsEmbedOnnx
    \/ HttpNextRequest

SpecHandleEmbeddings == InitHandleEmbeddings /\ [][NextHandleEmbeddings]_vars

\* the request carries an input that is a string or an array with a string
SuppliesStrings(body) ==
    /\ body.kind = "object"
    /\ \/ IsJString(body.input)
       \/ /\ body.input.type = "array"
          /\ \E i \in 1..Len(body.input.items) : IsJString(body.input.items[i])

\* the number of elements of the supplied input
NumElements(v) == IF IsJString(v) THEN 1 ELSE Len(v.items)

(***************************************************************************)
(* C18                                                                     *)
(***************************************************************************)
\* C18: unless the embedding service fails, a request whose input is a string
\* or an array that yields strings is answered 200 with one embedding per
\* element of the input; every other request is answered 400 and the service
\* is not invoked.
C18_OneEmbeddingPerElement ==
    (httpPc = "done" /\ httpStatus # 500) =>
        IF SuppliesStrings(httpBody)
        THEN httpStatus = 200 /\ httpCount = NumElements(httpBody.input)
        ELSE httpStatus = 400 /\ ~httpInvoked

(***************************************************************************)
(* Streaming transcription: TranscribeFileStream and its two handlers      *)
(***************************************************************************)
\* largest number of lines whisper prints in one transcription
MaxLines == 2

\* TRUE stands for a line that is empty once trimmed
LineScripts == UNION {[1..n -> BOOLEAN] : n \in 0..MaxLines}

DataEvent(text) == [event |-> "data", text |-> text]

\* SSE: "event: done\n" and "data: \n\n"; WebSocket: {"event":"done"}
DoneEvents(transport) ==
    IF transport = "sse"
    THEN <<[event |-> "done"], DataEvent(0)>>
    ELSE <<[event |-> "done"]>>

\* The handler calls TranscribeFileStream and enters its loop; the WebSocket
\* handler writes the status event first.
TranscribeFileStream ==
    /\ sttPc = "idle"
    /\ \E transport \in {"sse", "ws"}, script \in LineScripts,
          fail \in {"none", "setup", "scan"} :
        /\ sttTransport' = transport
        /\ prodScript' = script
        /\ prodFail' = fail
        /\ sttOut' = IF transport = "ws" THEN <<[event |-> "status"]>> ELSE <<>>
    /\ sttPc' = "select"
    /\ prodPc' = "setup"
    /\ UNCHANGED <<sttCtxDone, prodNext, errsBuf, errsClosed, linesClosed>>
    /\ UNCHANGED sttOthers

\* ensureWhisperInstalled, ensureWhisperModel, pickWhisperBinary, cmd.Start:
\* one of them fails (errs <- err; return) or all succeed
producerSetup ==
    /\ prodPc = "setup"
    /\ IF prodFail = "setup"
       THEN errsBuf' = errsBuf + 1 /\ prodPc' = "closeErrs"
       ELSE errsBuf' = errsBuf /\ prodPc' = "scan"
    /\ UNCHANGED <<sttTransport, sttPc, sttOut, sttCtxDone, prodScript, prodNext,
                   prodFail, errsClosed, linesClosed>>
    /\ UNCHANGED sttOthers

\* for scan.Scan() { select { case <-ctx.Done(): kill; return  default: } ... }
producerScan ==
    /\ prodPc = "scan"
    /\ IF prodNext >= Len(prodScript)
       THEN prodPc' = "scanErr" /\ prodNext' = prodNext
       ELSE /\ prodNext' = prodNext + 1
            /\ prodPc' = IF sttCtxDone THEN "closeErrs"
                         ELSE IF prodScript[prodNext + 1] THEN "scan"
                         ELSE "send"
    /\ UNCHANGED <<sttTransport, sttPc, sttOut, sttCtxDone, prodScript, prodFail,
                   errsBuf, errsClosed, linesClosed>>
    /\ UNCHANGED sttOthers

\* if err := scan.Err(); err != nil { errs <- err }; cmd.Wait()
producerScanErr ==
    /\ prodPc = "scanErr"
    /\ errsBuf' = IF prodFail = "scan" THEN errsBuf + 1 ELSE errsBuf
    /\ prodPc' = "closeErrs"
    /\ UNCHANGED <<sttTransport, sttPc, sttOut, sttCtxDone, prodScript, prodNext,
                   prodFail, errsClosed, linesClosed>>
    /\ UNCHANGED sttOthers

\* the goroutine returns: defer close(errs) runs first
producerCloseErrs ==
    /\ prodPc = "closeErrs"
    /\ errsClosed' = TRUE
    /\ prodPc' = "closeLines"
    /\ UNCHANGED <<sttTransport, sttPc, sttOut, sttCtxDone, prodScript, prodNext,
                   prodFail, errsBuf, linesClosed>>
    /\ UNCHANGED sttOthers

\* then defer close(lines)
producerCloseLines ==
    /\ prodPc = "closeLines"
    /\ linesClosed' = TRUE
    /\ prodPc' = "exited"
    /\ UNCHANGED <<sttTransport, sttPc, sttOut, sttCtxDone, prodScript, prodNext,
                   prodFail, errsBuf, errsClosed>>
    /\ UNCHANGED sttOthers

\* case line, ok := <-linesCh with ok: the goroutine's lines <- line and the
\* handler's receive meet (lines is unbuffered); the data event is written
selectLine ==
    /\ sttPc = "select" /\ prodPc = "send"
    /\ sttOut' = Append(sttOut, DataEvent(prodNext))
    /\ prodPc' = "scan"
    /\ UNCHANGED <<sttTransport, sttPc, sttCtxDone, prodScript, prodNext, prodFail,
                   errsBuf, errsClosed, linesClosed>>
    /\ UNCHANGED sttOthers

\* case line, ok := <-linesCh with !ok: the done event, return
selectLinesClosed ==
    /\ sttPc = "select" /\ linesClosed
    /\ sttOut' = sttOut \o DoneEvents(sttTransport)
    /\ sttPc' = "returned"
    /\ UNCHANGED <<sttTransport, sttCtxDone, prodPc, prodScript, prodNext,
                   prodFail, errsBuf, errsClosed, linesClosed>>
    /\ UNCHANGED sttOthers

\* case err := <-errCh: a buffered error (logged; written to the socket by the
\* WebSocket handler), or nil from the closed channel; return
selectErr ==
    /\ sttPc = "select"
    /\ \/ /\ errsBuf > 0
          /\ errsBuf' = errsBuf - 1
          /\ sttOut' = IF sttTransport = "ws"
                       THEN Append(sttOut, [event |-> "error"])
                       ELSE sttOut
       \/ /\ errsBuf = 0 /\ errsClosed
          /\ UNCHANGED <<errsBuf, sttOut>>
    /\ sttPc' = "returned"
    /\ UNCHANGED <<sttTransport, sttCtxDone, prodPc, prodScript, prodNext,
                   prodFail, errsClosed, linesClosed>>
    /\ UNCHANGED sttOthers

\* case <-r.Context().Done(): return
selectCtxDone ==
    /\ sttPc = "select" /\ sttCtxDone
    /\ sttPc' = "returned"
    /\ UNCHANGED <<sttTransport, sttOut, sttCtxDone, prodPc, prodScript, prodNext,
                   prodFail, errsBuf, errsClosed, linesClosed>>
    /\ UNCHANGED sttOthers

\* the client goes away while the transcription runs
sttCancel ==
    /\ sttPc = "select" /\ ~sttCtxDone
    /\ sttCtxDone' = TRUE
    /\ UNCHANGED <<sttTransport, sttPc, sttOut, prodPc, prodScript, prodNext,
                   prodFail, errsBuf, errsClosed, linesClosed>>
    /\ UNCHANGED sttOthers

\* The handler returned and the goroutine exited, or waits for ever in
\* lines <- line; the next request gets its own channels.
SttNextRequest ==
    /\ sttPc = "returned"
    /\ prodPc \in {"exited", "send"}
    /\ sttTransport' = "none"
    /\ sttPc' = "idle"
    /\ sttOut' = <<>>
    /\ sttCtxDone' = FALSE
    /\ prodPc' = "none"
    /\ prodScript' = <<>>
    /\ prodNext' = 0
    /\ prodFail' = "none"
    /\ errsBuf' = 0
    /\ errsClosed' = FALSE
    /\ linesClosed' = FALSE
    /\ UNCHANGED sttOthers

InitStream ==
    /\ InitGen /\ tokFile = 1
    /\ InitEmb /\ embFile = 1
    /\ InitRest
    /\ backend = "onnx"

NextStream ==
    \/ TranscribeFileStream
    \/ producerSetup
    \/ producerScan
    \/ producerScanErr
    \/ producerCloseErrs
    \/ producerCloseLines
    \/ selectLine
    \/ selectLinesClosed
    \/ selectErr
    \/ selectCtxDone
    \/ sttCancel
    \/ SttNextRequest

SpecStream == InitStream /\ [][NextStream]_vars

\* the number of lines of the script that are not blank
RECURSIVE DataLines(_, _)
DataLines(script, i) ==
    IF i > Len(script) THEN 0
    ELSE (IF script[i] THEN 0 ELSE 1) + DataLines(script, i + 1)

RECURSIVE CountData(_, _)
CountData(out, i) ==
    IF i > Len(out) THEN 0
    ELSE (IF out[i].event = "data" /\ out[i].text # 0 THEN 1 ELSE 0)
         + CountData(out, i + 1)

\* the response ends with the done event of its transport
EndsWithDone(out, transport) ==
    LET done == DoneEvents(transport)
    IN /\ Len(out) >= Len(done)
       /\ SubSeq(out, Len(out) - Len(done) + 1, Len(out)) = done

(***************************************************************************)
(* C19                                                                     *)
(***************************************************************************)
\* C19: when a streaming transcription ran to completion (nothing failed,
\* the request was not cancelled) and the handler returned, the response
\* holds every data line and ends with the done event of its transport.
C19_EndsWithDone ==
    (sttPc = "returned" /\ prodFail = "none" /\ ~sttCtxDone) =>
        /\ CountData(sttOut, 1) = DataLines(prodScript, 1)
        /\ EndsWithDone(sttOut, sttTransport)

(***************************************************************************)
(* Installation of the runtime library, the model and the vocabulary       *)
(***************************************************************************)
\* the number of pieces io.Copy writes a file in
FileChunks == 2

\* the path each artifact is used from
FinalPath(artifact) ==
    CASE artifact = "lib"   -> "libonnxruntime.so"
      [] artifact = "model" -> "model.onnx"
      [] artifact = "vocab" -> "vocab.txt"

\* the dst of tryDownload for each artifact
DownloadPath(artifact) ==
    IF artifact = "lib" THEN "ort.tgz" ELSE FinalPath(artifact)

\* tmp := dst + ".part"
PartPath(artifact) ==
    CASE artifact = "lib"   -> "ort.tgz.part"
      [] artifact = "model" -> "model.onnx.part"
      [] artifact = "vocab" -> "vocab.txt.part"

\* len(urls) of each tryDownload call
NumUrls(artifact) == IF artifact = "model" THEN 3 ELSE 1

FinalPaths == {"libonnxruntime.so", "model.onnx", "vocab.txt"}

IsComplete(file) == file.exists /\ file.written = FileChunks

\* os.Create(p): the file exists and is empty
Created(files, p) == [files EXCEPT ![p] = [exists |-> TRUE, written |-> 0]]

\* io.Copy wrote one more piece to p
Grown(files, p) == [files EXCEPT ![p].written = @ + 1]

\* the artifact is in place: on to the next one, or ensureRuntimeAndModel is done
NextArtifact ==
    IF instArtifact = "vocab"
    THEN instPc' = "ok" /\ instArtifact' = "none"
    ELSE /\ instPc' = "stat"
         /\ instArtifact' = IF instArtifact = "lib" THEN "model" ELSE "vocab"

\* an error leaves tryDownload for the next URL, if there is one
NextUrlOrFail ==
    IF instUrl < NumUrls(instArtifact)
    THEN instUrl' = instUrl + 1 /\ instPc' = "request"
    ELSE instUrl' = instUrl /\ instPc' = "failed"

\* the process starts and calls ensureRuntimeAndModel
ensureRuntimeAndModel ==
    /\ instPc = "idle"
    /\ instPc' = "stat"
    /\ instArtifact' = "lib"
    /\ UNCHANGED <<fsFiles, instUrl, instAccepted>>
    /\ UNCHANGED fsOthers

\* if fileExists(so) { return so, nil } and the os.Stat of ensureMiniLMModel
statExists ==
    /\ instPc = "stat"
    /\ fsFiles[FinalPath(instArtifact)].exists
    /\ instAccepted' = instAccepted \cup
           {[path |-> FinalPath(instArtifact),
             complete |-> IsComplete(fsFiles[FinalPath(instArtifact)])]}
    /\ NextArtifact
    /\ UNCHANGED <<fsFiles, instUrl>>
    /\ UNCHANGED fsOthers

\* the file is not there: tryDownload starts with its first URL
statMissing ==
    /\ instPc = "stat"
    /\ ~fsFiles[FinalPath(instArtifact)].exists
    /\ instUrl' = 1
    /\ instPc' = "request"
    /\ UNCHANGED <<fsFiles, instArtifact, instAccepted>>
    /\ UNCHANGED fsOthers

\* downloadFile: the request fails, the status is bad, or os.Create(tmp) fails
downloadFileFail ==
    /\ instPc = "request"
    /\ NextUrlOrFail
    /\ UNCHANGED <<fsFiles, instArtifact, instAccepted>>
    /\ UNCHANGED fsOthers

\* downloadFile: out, err := os.Create(tmp)
downloadFileCreate ==
    /\ instPc = "request"
    /\ fsFiles' = Created(fsFiles, PartPath(instArtifact))
    /\ instPc' = "copy"
    /\ UNCHANGED <<instArtifact, instUrl, instAccepted>>
    /\ UNCHANGED fsOthers

\* io.Copy(out, resp.Body) writes the next piece
downloadFileCopy ==
    /\ instPc = "copy"
    /\ fsFiles[PartPath(instArtifact)].written < FileChunks
    /\ fsFiles' = Grown(fsFiles, PartPath(instArtifact))
    /\ UNCHANGED <<instPc, instArtifact, instUrl, instAccepted>>
    /\ UNCHANGED fsOthers

\* io.Copy fails: out.Close(); return err
downloadFileCopyFail ==
    /\ instPc = "copy"
    /\ fsFiles[PartPath(instArtifact)].written < FileChunks
    /\ NextUrlOrFail
    /\ UNCHANGED <<fsFiles, instArtifact, instAccepted>>
    /\ UNCHANGED fsOthers

\* out.Close(); return os.Rename(tmp, dst); then the archive is unpacked, or
\* the next artifact is looked at
downloadFileRename ==
    /\ instPc = "copy"
    /\ fsFiles[PartPath(instArtifact)].written = FileChunks
    /\ fsFiles' = [fsFiles EXCEPT
                      ![DownloadPath(instArtifact)] = fsFiles[PartPath(instArtifact)],
                      ![PartPath(instArtifact)] = Absent]
    /\ IF instArtifact = "lib"
       THEN instPc' = "untar" /\ instArtifact' = instArtifact
       ELSE NextArtifact
    /\ UNCHANGED <<instUrl, instAccepted>>
    /\ UNCHANGED fsOthers

\* untarSelect: the archive cannot be read, or holds no such file
untarSelectFail ==
    /\ instPc = "untar"
    /\ instPc' = "failed"
    /\ UNCHANGED <<fsFiles, instArtifact, instUrl, instAccepted>>
    /\ UNCHANGED fsOthers

\* untarSelect: of, err := os.Create(out), out being the final path
untarSelectCreate ==
    /\ instPc = "untar"
    /\ fsFiles' = Created(fsFiles, FinalPath("lib"))
    /\ instPc' = "untarCopy"
    /\ UNCHANGED <<instArtifact, instUrl, instAccepted>>
    /\ UNCHANGED fsOthers

\* io.Copy(of, tr) writes the next piece
untarSelectCopy ==
    /\ instPc = "untarCopy"
    /\ fsFiles[FinalPath("lib")].written < FileChunks
    /\ fsFiles' = Grown(fsFiles, FinalPath("lib"))
    /\ UNCHANGED <<instPc, instArtifact, instUrl, instAccepted>>
    /\ UNCHANGED fsOthers

\* io.Copy fails: of.Close(); return err
untarSelectCopyFail ==
    /\ instPc = "untarCopy"
    /\ fsFiles[FinalPath("lib")].written < FileChunks
    /\ instPc' = "failed"
    /\ UNCHANGED <<fsFiles, instArtifact, instUrl, instAccepted>>
    /\ UNCHANGED fsOthers

\* of.Close(); os.Chmod; return nil, and ensureORTSharedLib returns the path
untarSelectDone ==
    /\ instPc = "untarCopy"
    /\ fsFiles[FinalPath("lib")].written = FileChunks
    /\ NextArtifact
    /\ UNCHANGED <<fsFiles, instUrl, instAccepted>>
    /\ UNCHANGED fsOthers

\* the process is killed, or the machine loses power, in the middle
processKilled ==
    /\ instPc \notin {"idle", "ok", "failed"}
    /\ instPc' = "idle"
    /\ instArtifact' = "none"
    /\ instUrl' = 0
    /\ UNCHANGED <<fsFiles, instAccepted>>
    /\ UNCHANGED fsOthers

\* ensureRuntimeAndModel returned; the process is started again later
processRestart ==
    /\ instPc \in {"ok", "failed"}
    /\ instPc' = "idle"
    /\ instArtifact' = "none"
    /\ instUrl' = 0
    /\ UNCHANGED <<fsFiles, instAccepted>>
    /\ UNCHANGED fsOthers

InitInstall ==
    /\ InitGen /\ tokFile = 1
    /\ InitEmb /\ embFile = 1
    /\ InitRest
    /\ backend = "onnx"

NextInstall ==
    \/ ensureRuntimeAndModel
    \/ statExists
    \/ statMissing
    \/ downloadFileFail
    \/ downloadFileCreate
    \/ downloadFileCopy
    \/ downloadFileCopyFail
    \/ downloadFileRename
    \/ untarSelectFail
    \/ untarSelectCreate
    \/ untarSelectCopy
    \/ untarSelectCopyFail
    \/ untarSelectDone
    \/ processKilled
    \/ processRestart

SpecInstall == InitInstall /\ [][NextInstall]_vars

(***************************************************************************)
(* C20                                                                     *)
(***************************************************************************)
\* C20: at every point, each final artifact path does not exist or holds the
\* complete artifact, and no existence check ever accepted an incomplete file.
C20_InstallIsAtomic ==
    /\ \A p \in FinalPaths : fsFiles[p].exists => IsComplete(fsFiles[p])
    /\ \A a \in instAccepted : a.complete

(***************************************************************************)
(* The loops over mirror URLs, and downloadFileWithRetry                   *)
(***************************************************************************)
\* largest number of mirror URLs of one artifact
MaxUrls == 3

\* largest retries argument
MaxRetries == 2

\* the retries argument of the calls in ensureWhisperModel
WhisperRetries == 2

\* the loops that go through downloadFileWithRetry
UsesRetry(loop) == loop \in {"whisperModel", "retry"}

ResolveReturn(res) ==
    /\ rsResult' = res
    /\ rsPc' = "returned"

\* the value the function returns for the error e
ErrResult(e) == IF e = NoErr THEN [kind |-> "nil"] ELSE [kind |-> "err", err |-> e]

\* mutation: the retry loop runs once more
RetryExhausted_OneMore(i, retries) == i > retries + 1

\* the loop condition i <= retries fails
RetryExhausted(i, retries) == i > retries

\* tryDownload (called by ensureORTSharedLib), the darwin branch of the other
\* ensureORTSharedLib, or ensureWhisperModel reaches its loop over the URLs
ResolveCall ==
    /\ rsPc = "idle"
    /\ \E loop \in {"tryDownload", "ortDarwin", "whisperModel"},
          n \in 1..MaxUrls, dst \in {"missing", "stale"} :
        /\ rsVariant' = loop
        /\ rsNumUrls' = n
        /\ rsDst' = dst
        /\ rsRetries' = IF loop = "whisperModel" THEN WhisperRetries ELSE 0
    /\ rsUrl' = 1
    /\ rsPc' = "urls"
    /\ UNCHANGED <<rsLast, rsI, rtLast, rsLog, rsLater, rsResult>>
    /\ UNCHANGED rsOthers

\* downloadFileWithRetry(url, dst, retries, timeout) is called
downloadFileWithRetryCall ==
    /\ rsPc = "idle"
    /\ \E retries \in 0..MaxRetries, dst \in {"missing", "stale"} :
        /\ rsRetries' = retries
        /\ rsDst' = dst
    /\ rsVariant' = "retry"
    /\ rsNumUrls' = 1
    /\ rsUrl' = 1
    /\ rsI' = 0
    /\ rtLast' = NoErr
    /\ rsPc' = "retry"
    /\ UNCHANGED <<rsLast, rsLog, rsLater, rsResult>>
    /\ UNCHANGED rsOthers

\* for i, u := range urls: the next URL, or the end of the loop
urlsLoop ==
    /\ rsPc = "urls"
    /\ IF rsUrl > rsNumUrls
       THEN rsPc' = "after" /\ UNCHANGED <<rsI, rtLast>>
       ELSE IF UsesRetry(rsVariant)
       THEN rsPc' = "retry" /\ rsI' = 0 /\ rtLast' = NoErr
       ELSE rsPc' = "download" /\ UNCHANGED <<rsI, rtLast>>
    /\ UNCHANGED <<rsVariant, rsNumUrls, rsUrl, rsLast, rsRetries, rsLog, rsDst,
                   rsLater, rsResult>>
    /\ UNCHANGED rsOthers

\* for i := 0; i <= retries; i++: sleep before every attempt but the first;
\* return last after the loop
retryLoop ==
    /\ rsPc = "retry"
    /\ IF RetryExhausted(rsI, rsRetries)
       THEN IF rsVariant = "retry"
            THEN /\ ResolveReturn(ErrResult(rtLast))
                 /\ UNCHANGED <<rsLast, rsUrl>>
            ELSE /\ rsLast' = rtLast
                 /\ rsUrl' = rsUrl + 1
                 /\ rsPc' = "urls"
                 /\ UNCHANGED rsResult
       ELSE /\ rsPc' = IF rsI > 0 THEN "sleep" ELSE "download"
            /\ UNCHANGED <<rsLast, rsUrl, rsResult>>
    /\ UNCHANGED <<rsVariant, rsNumUrls, rsRetries, rsI, rtLast, rsLog, rsDst,
                   rsLater>>
    /\ UNCHANGED rsOthers

\* time.Sleep(backoff)
retrySleep ==
    /\ rsPc = "sleep"
    /\ rsPc' = "download"
    /\ UNCHANGED <<rsVariant, rsNumUrls, rsUrl, rsLast, rsRetries, rsI, rtLast,
                   rsLog, rsDst, rsLater, rsResult>>
    /\ UNCHANGED rsOthers

\* downloadFile returns an error: dst is as it was
downloadFails ==
    /\ rsPc = "download"
    /\ rsLog' = Append(rsLog, [url |-> rsUrl, try |-> rsI, ok |-> FALSE])
    /\ IF UsesRetry(rsVariant)
       THEN \* last = err; continue
            /\ rtLast' = Err(rsUrl, rsI + 1)
            /\ rsI' = rsI + 1
            /\ rsPc' = "retry"
            /\ UNCHANGED <<rsLast, rsUrl>>
       ELSE \* tryDownload: last = err; continue.  darwin: the error is dropped
            /\ rsLast' = IF rsVariant = "tryDownload" THEN Err(rsUrl, 1) ELSE rsLast
            /\ rsUrl' = rsUrl + 1
            /\ rsPc' = "urls"
            /\ UNCHANGED <<rsI, rtLast>>
    /\ UNCHANGED <<rsVariant, rsNumUrls, rsRetries, rsDst, rsLater, rsResult>>
    /\ UNCHANGED rsOthers

\* downloadFile returns nil: the complete file was renamed onto dst
downloadSucceeds ==
    /\ rsPc = "download"
    /\ rsLog' = Append(rsLog, [url |-> rsUrl, try |-> rsI, ok |-> TRUE])
    /\ rsDst' = "fresh"
    /\ CASE rsVariant = "retry" ->
              \* return nil
              ResolveReturn([kind |-> "nil"]) /\ UNCHANGED rsLast
         [] rsVariant = "whisperModel" ->
              \* last = nil; break
              rsLast' = NoErr /\ rsPc' = "after" /\ UNCHANGED rsResult
         [] rsVariant = "tryDownload" ->
              \* return nil, and the caller goes on to untarSelect
              rsPc' = "untar" /\ UNCHANGED <<rsLast, rsResult>>
         [] rsVariant = "ortDarwin" ->
              \* break
              rsPc' = "after" /\ UNCHANGED <<rsLast, rsResult>>
    /\ UNCHANGED <<rsVariant, rsNumUrls, rsUrl, rsRetries, rsI, rtLast, rsLater>>
    /\ UNCHANGED rsOthers

\* after the loop: tryDownload returns last and its caller returns that error;
\* ensureWhisperModel returns last if it is not nil, dst otherwise; the darwin
\* branch goes on to untarSelect
afterLoop ==
    /\ rsPc = "after"
    /\ IF rsVariant = "ortDarwin"
       THEN rsPc' = "untar" /\ UNCHANGED rsResult
       ELSE ResolveReturn(ErrResult(rsLast))
    /\ UNCHANGED <<rsVariant, rsNumUrls, rsUrl, rsLast, rsRetries, rsI, rtLast,
                   rsLog, rsDst, rsLater>>
    /\ UNCHANGED rsOthers

\* untarSelect(tgz, ...): os.Open fails when the archive is missing; otherwise
\* the library is written from the archive that is there, or a read fails
untarSelectArchive ==
    /\ rsPc = "untar"
    /\ rsLater' = rsDst
    /\ IF rsDst = "missing"
       THEN ResolveReturn([kind |-> "untar"])
       ELSE \E ok \in BOOLEAN :
              ResolveReturn(IF ok THEN [kind |-> "nil"] ELSE [kind |-> "untar"])
    /\ UNCHANGED <<rsVariant, rsNumUrls, rsUrl, rsLast, rsRetries, rsI, rtLast,
                   rsLog, rsDst>>
    /\ UNCHANGED rsOthers

\* the caller has the result; the next call may come
ResolveNext ==
    /\ rsPc = "returned"
    /\ rsVariant' = "none"
    /\ rsPc' = "idle"
    /\ rsNumUrls' = 0
    /\ rsUrl' = 0
    /\ rsLast' = NoErr
    /\ rsRetries' = 0
    /\ rsI' = 0
    /\ rtLast' = NoErr
    /\ rsLog' = <<>>
    /\ rsDst' = "missing"
    /\ rsLater' = "none"
    /\ rsResult' = NoResult
    /\ UNCHANGED rsOthers

InitResolve ==
    /\ InitGen /\ tokFile = 1
    /\ InitEmb /\ embFile = 1
    /\ InitRest
    /\ backend = "onnx"

\* the steps of a call that is under way
ResolveStep ==
    \/ urlsLoop
    \/ retryLoop
    \/ retrySleep
    \/ downloadFails
    \/ downloadSucceeds
    \/ afterLoop
    \/ untarSelectArchive

NextResolve ==
    \/ ResolveCall
    \/ downloadFileWithRetryCall
    \/ ResolveStep
    \/ ResolveNext

SpecResolve == InitResolve /\ [][NextResolve]_vars

\* a call that is under way is not abandoned
FairResolve == SpecResolve /\ WF_vars(ResolveStep)

\* some downloadFile call of the log succeeded
SomeSucceeded(log) == \E k \in 1..Len(log) : log[k].ok

\* the calls for the url-th URL
CallsFor(log, url) == {k \in 1..Len(log) : log[k].url = url}

(***************************************************************************)
(* C21                                                                     *)
(***************************************************************************)
\* C21: a loop over the mirror URLs tries them in list order and stops at the
\* first that downloads; the resolving function returns a download error
\* exactly when every URL failed, the error of the last URL tried, and then
\* no later installation step has run.
C21_MirrorsInOrder ==
    (rsPc = "returned" /\ rsVariant \in {"tryDownload", "ortDarwin", "whisperModel"}) =>
        /\ \A k \in 1..(Len(rsLog) - 1) :
              /\ ~rsLog[k].ok
              /\ rsLog[k].url <= rsLog[k + 1].url
              /\ rsLog[k + 1].url <= rsLog[k].url + 1
        /\ Len(rsLog) > 0 /\ rsLog[1].url = 1
        /\ IF SomeSucceeded(rsLog)
           THEN rsResult.kind # "err"
           ELSE /\ rsLog[Len(rsLog)].url = rsNumUrls
                /\ rsResult = ErrResult(Err(rsNumUrls, rsLog[Len(rsLog)].try + 1))
                /\ rsLater = "none"

(***************************************************************************)
(* C30                                                                     *)
(***************************************************************************)
\* what C30 says of the calls made so far for the URL a downloadFileWithRetry
\* call works on, and of its result
C30_RetryBounded ==
    UsesRetry(rsVariant) =>
        /\ \A url \in 1..rsNumUrls :
              /\ Cardinality(CallsFor(rsLog, url)) <= rsRetries + 1
              /\ \A k \in CallsFor(rsLog, url) :
                    rsLog[k].ok => \A later \in CallsFor(rsLog, url) : later <= k
        /\ (rsVariant = "retry" /\ rsPc = "returned") =>
              IF SomeSucceeded(rsLog)
              THEN rsResult = [kind |-> "nil"]
              ELSE rsResult = ErrResult(Err(1, Len(rsLog))) /\ Len(rsLog) > 0

\* C30: downloadFileWithRetry makes at most retries+1 attempts and none after
\* a success, returns nil exactly when an attempt succeeded and the error of
\* the last attempt otherwise, and returns for every retries >= 0.
C30_RetryTerminates ==
    /\ [](C30_RetryBounded = TRUE)
    /\ (rsPc = "retry") ~> (rsPc \in {"returned", "urls", "after"})

\* a call with the largest retries value in which every attempt failed
C30_Witness ==
    /\ rsVariant = "retry" /\ rsPc = "returned"
    /\ rsRetries = MaxRetries
    /\ Len(rsLog) = MaxRetries + 1
    /\ rsResult.kind = "err"

(***************************************************************************)
(* ensureWhisperInstalled under concurrent requests                        *)
(***************************************************************************)
\* if _, err := s.pickWhisperBinary(); err == nil { return nil }; otherwise
\* downloadWhisperBinary and its downloadFileWithRetry are entered
ensureWhisperInstalled(c) ==
    /\ ccPc[c] = "idle"
    /\ IF ccBinary
       THEN /\ ccPc' = [ccPc EXCEPT ![c] = "returned"]
            /\ ccResult' = [ccResult EXCEPT ![c] = "nil"]
            /\ UNCHANGED <<ccTry, ccPerformed>>
       ELSE /\ ccPc' = [ccPc EXCEPT ![c] = "request"]
            /\ ccTry' = [ccTry EXCEPT ![c] = 0]
            /\ ccPerformed' = ccPerformed \cup {c}
            /\ UNCHANGED ccResult
    /\ UNCHANGED <<ccWriters, ccPart, ccZip, ccBinary>>
    /\ UNCHANGED ccOthers

\* the attempt failed: the next one, or the loop is over and, no archive being
\* there, downloadWhisperBinary returns the error
ccAttemptFailed(c) ==
    IF ccTry[c] < WhisperRetries
    THEN /\ ccTry' = [ccTry EXCEPT ![c] = @ + 1]
         /\ ccPc' = [ccPc EXCEPT ![c] = "request"]
    ELSE /\ ccTry' = ccTry
         /\ ccPc' = [ccPc EXCEPT ![c] = "stat"]

\* downloadFile: the request fails or the status is bad
ccRequestFails(c) ==
    /\ ccPc[c] = "request"
    /\ ccAttemptFailed(c)
    /\ UNCHANGED <<ccResult, ccWriters, ccPart, ccZip, ccBinary, ccPerformed>>
    /\ UNCHANGED ccOthers

\* downloadFile: out, err := os.Create(dst + ".part"), truncating what is there
ccCreatePart(c) ==
    /\ ccPc[c] = "request"
    /\ ccPart' = TRUE
    /\ ccWriters' = ccWriters \cup {c}
    /\ ccPc' = [ccPc EXCEPT ![c] = "copy"]
    /\ UNCHANGED <<ccTry, ccResult, ccZip, ccBinary, ccPerformed>>
    /\ UNCHANGED ccOthers

\* io.Copy fails: out.Close(); return err
ccCopyFails(c) ==
    /\ ccPc[c] = "copy"
    /\ ccWriters' = ccWriters \ {c}
    /\ ccAttemptFailed(c)
    /\ UNCHANGED <<ccResult, ccPart, ccZip, ccBinary, ccPerformed>>
    /\ UNCHANGED ccOthers

\* io.Copy returns nil; out.Close(); os.Rename(tmp, dst), which fails when
\* the .part file is no longer there
ccRename(c) ==
    /\ ccPc[c] = "copy"
    /\ ccWriters' = ccWriters \ {c}
    /\ IF ccPart
       THEN /\ ccPart' = FALSE
            /\ ccZip' = TRUE
            /\ ccPc' = [ccPc EXCEPT ![c] = "stat"]
            /\ ccTry' = ccTry
       ELSE /\ ccAttemptFailed(c)
            /\ UNCHANGED <<ccPart, ccZip>>
    /\ UNCHANGED <<ccResult, ccBinary, ccPerformed>>
    /\ UNCHANGED ccOthers

\* if _, err := os.Stat(downloadPath); err != nil { return fmt.Errorf(...) }
ccStat(c) ==
    /\ ccPc[c] = "stat"
    /\ IF ccZip
       THEN /\ ccPc' = [ccPc EXCEPT ![c] = "extract"]
            /\ ccResult' = ccResult
       ELSE /\ ccPc' = [ccPc EXCEPT ![c] = "returned"]
            /\ ccResult' = [ccResult EXCEPT ![c] = "download error"]
    /\ UNCHANGED <<ccTry, ccWriters, ccPart, ccZip, ccBinary, ccPerformed>>
    /\ UNCHANGED ccOthers

\* extractWhisperBinary, then the deferred os.Remove(downloadPath)
ccExtract(c) ==
    /\ ccPc[c] = "extract"
    /\ IF ccZip
       THEN /\ ccBinary' = TRUE
            /\ ccResult' = [ccResult EXCEPT ![c] = "nil"]
       ELSE /\ ccBinary' = ccBinary
            /\ ccResult' = [ccResult EXCEPT ![c] = "extract error"]
    /\ ccZip' = FALSE
    /\ ccPc' = [ccPc EXCEPT ![c] = "returned"]
    /\ UNCHANGED <<ccTry, ccWriters, ccPart, ccPerformed>>
    /\ UNCHANGED ccOthers

\* the request is over; the caller's next request may come
ccNextRequest(c) ==
    /\ ccPc[c] = "returned"
    /\ ccPc' = [ccPc EXCEPT ![c] = "idle"]
    /\ ccResult' = [ccResult EXCEPT ![c] = "none"]
    /\ ccTry' = [ccTry EXCEPT ![c] = 0]
    /\ UNCHANGED <<ccWriters, ccPart, ccZip, ccBinary, ccPerformed>>
    /\ UNCHANGED ccOthers

InitFirstUse ==
    /\ InitGen /\ tokFile = 1
    /\ InitEmb /\ embFile = 1
    /\ InitRest
    /\ backend = "onnx"

NextFirstUse ==
    \E c \in Callers :
        \/ ensureWhisperInstalled(c)
        \/ ccRequestFails(c)
        \/ ccCreatePart(c)
        \/ ccCopyFails(c)
        \/ ccRename(c)
        \/ ccStat(c)
        \/ ccExtract(c)
        \/ ccNextRequest(c)

SpecFirstUse == InitFirstUse /\ [][NextFirstUse]_vars

\* the callers that are between the start of a download and their return
Installing == {c \in Callers : ccPc[c] \in {"request", "copy", "stat", "extract"}}

(***************************************************************************)
(* C22                                                                     *)
(***************************************************************************)
\* C22: of the callers that trigger first use at most one installs at a time,
\* the others starting no download of their own, and the .part file has at
\* most one writer.
C22_SingleInFlight ==
    /\ Cardinality(Installing) <= 1
    /\ Cardinality(ccWriters) <= 1

(***************************************************************************)
(* RegisterRoutes and the dispatch of the mux                              *)
(***************************************************************************)
ServiceNames == {"STT", "Embeddings", "TTS"}

\* the patterns each if d.X != nil block registers
PatternsOf(svc) ==
    CASE svc = "STT" -> {"/v1/audio/transcriptions", "/v1/audio/transcriptions/stream"}
      [] svc = "Embeddings" -> {"/v1/embeddings"}
      [] svc = "TTS" -> {"/v1/tts"}

\* the handler each closure calls after its method check
HandlerOf(path) ==
    CASE path = "/v1/audio/transcriptions" -> "handleSTTTranscribe"
      [] path = "/v1/audio/transcriptions/stream" -> "handleSTTTranscribeStream"
      [] path = "/v1/embeddings" -> "handleEmbeddings"
      [] path = "/v1/tts" -> "handleTTS"
      [] OTHER -> ""

ServicePaths == UNION {PatternsOf(svc) : svc \in ServiceNames}

\* the request paths tried: every pattern RegisterRoutes knows and two others
RequestPaths == {"/healthz", "/", "/v1/models"} \cup ServicePaths

Methods == {"GET", "POST", "PUT", "DELETE"}

Registered_AllServices(deps) == {"/healthz"} \cup ServicePaths

\* the patterns on the mux after RegisterRoutes(mux, d)
Registered(deps) == {"/healthz"} \cup UNION {PatternsOf(svc) : svc \in deps}

RegisterRoutes ==
    /\ rtPc = "start"
    /\ \E deps \in SUBSET ServiceNames :
        /\ rtDeps' = deps
        /\ rtRoutes' = Registered(deps)
    /\ rtPc' = "serving"
    /\ UNCHANGED <<rtMethod, rtPath, rtStatus, rtBody, rtHandler>>
    /\ UNCHANGED rtOthers

\* the answer of the mux and the closures to one request
Answer(m, path, status, body, handler) ==
    /\ rtMethod' = m
    /\ rtPath' = path
    /\ rtStatus' = status
    /\ rtBody' = body
    /\ rtHandler' = handler
    /\ rtPc' = "answered"
    /\ UNCHANGED <<rtDeps, rtRoutes>>
    /\ UNCHANGED rtOthers

\* no pattern matches: http.NotFound
muxNotFound ==
    /\ rtPc = "serving"
    /\ \E m \in Methods, path \in RequestPaths \ rtRoutes :
        Answer(m, path, 404, "404 page not found", "")

\* the /healthz closure, whatever the method
healthz ==
    /\ rtPc = "serving"
    /\ "/healthz" \in rtRoutes
    /\ \E m \in Methods : Answer(m, "/healthz", 200, "ok", "")

\* if r.Method != http.MethodPost { http.Error(w, "method not allowed", 405) }
routeMethodNotAllowed ==
    /\ rtPc = "serving"
    /\ \E m \in Methods \ {"POST"}, path \in rtRoutes \ {"/healthz"} :
        Answer(m, path, 405, "method not allowed", "")

\* a POST on a registered service route goes to the service's handler, which
\* writes the status
routeHandler ==
    /\ rtPc = "serving"
    /\ \E path \in rtRoutes \ {"/healthz"} :
        Answer("POST", path, 0, "", HandlerOf(path))

\* the next request on the same mux, or another process with other services
rtNextRequest ==
    /\ rtPc = "answered"
    /\ \/ rtPc' = "serving" /\ UNCHANGED <<rtDeps, rtRoutes>>
       \/ rtPc' = "start" /\ rtDeps' = {} /\ rtRoutes' = {}
    /\ rtMethod' = ""
    /\ rtPath' = ""
    /\ rtStatus' = 0
    /\ rtBody' = ""
    /\ rtHandler' = ""
    /\ UNCHANGED rtOthers

InitRoutes ==
    /\ InitGen /\ tokFile = 1
    /\ InitEmb /\ embFile = 1
    /\ InitRest
    /\ backend = "onnx"

NextRoutes ==
    \/ RegisterRoutes
    \/ muxNotFound
    \/ healthz
    \/ routeMethodNotAllowed
    \/ routeHandler
    \/ rtNextRequest

SpecRoutes == InitRoutes /\ [][NextRoutes]_vars

\* the service a path belongs to
ServiceOf(path) == CHOOSE svc \in ServiceNames : path \in PatternsOf(svc)

(***************************************************************************)
(* C23                                                                     *)
(***************************************************************************)
\* C23: a request to a service route whose service was nil at registration is
\* answered 404, /healthz is answered 200 "ok" whatever the services and the
\* method, and a registered service route answers 405 to every method but
\* POST and passes a POST to its handler.
C23_RoutesFollowServices ==
    rtPc = "answered" =>
        /\ rtPath = "/healthz" => rtStatus = 200 /\ rtBody = "ok"
        /\ rtPath \in ServicePaths =>
            IF ServiceOf(rtPath) \notin rtDeps THEN rtStatus = 404 /\ rtHandler = ""
            ELSE IF rtMethod # "POST" THEN rtStatus = 405 /\ rtHandler = ""
            ELSE rtHandler = HandlerOf(rtPath)

C23_Witness ==
    /\ rtPc = "answered"
    /\ "STT" \notin rtDeps
    /\ "Embeddings" \in rtDeps
    /\ rtMethod = "POST"
    /\ rtPath = "/v1/audio/transcriptions"
    /\ rtStatus = 404

(***************************************************************************)
(* C24                                                                     *)
(***************************************************************************)
\* C24: while a session.Run of either variant is in progress the tensors it
\* was given have shape (1, len(ids)) for the current sequence, carry that
\* sequence as input ids, a mask of 1 at every position and the position
\* ids 0, 1, ..., len(ids)-1, also after ids has lost its oldest token.
C24_TensorsFollowSequence ==
    pc = "running" =>
        /\ inputs.shape = <<1, Len(ids)>>
        /\ inputs.input_ids = ids
        /\ Len(inputs.attention_mask) = Len(ids)
        /\ Len(inputs.position_ids) = Len(ids)
        /\ \A i \in 1..Len(ids) :
              /\ inputs.attention_mask[i] = 1
              /\ inputs.position_ids[i] = i - 1

\* the second step of a Generate call on a full window, the id selected by
\* the first step in the last position
C24_Witness ==
    /\ pc = "running"
    /\ variant = "Generate"
    /\ runs = 2
    /\ appended = 1
    /\ Len(ids) = maxLen
    /\ ids[maxLen] = lastID
    /\ inputs.position_ids[1] = 0
    /\ inputs.position_ids[maxLen] = maxLen - 1

(***************************************************************************)
(* Reading the logits: the row of the last position, and argmax            *)
(***************************************************************************)
\* the values of a logits tensor: two below the floor of argmax, two above
TensorVals == LogitVals \cup {ArgmaxFloor - 2}

\* the sequence lengths of the logits tensors tried
LogitsSeqs == {1, 2}

\* the float32 data of a tensor of shape (1, seq, vocab)
TensorData(seq, vocab) == [0..(seq * vocab - 1) -> TensorVals]

\* data[start : start+vocab]
Slice(data, start, vocab) == [j \in 0..(vocab - 1) |-> data[start + j]]

\* vocab := int(shape[2]); start := vocab * (int(shape[1]) - 1)
LastRow(data, shape) == Slice(data, shape[3] * (shape[2] - 1), shape[3])

\* data := tens.GetData(); shape := tens.GetShape(); the slice handed to argmax
readLogits ==
    /\ amPc = "idle"
    /\ \E seq \in LogitsSeqs :
        \E data \in TensorData(seq, LogitsVocab) :
            /\ amShape' = <<1, seq, LogitsVocab>>
            /\ amData' = data
            /\ amRow' = LastRow(data, <<1, seq, LogitsVocab>>)
    /\ amPc' = "read"
    /\ UNCHANGED amNext
    /\ UNCHANGED amOthers

\* nextID := argmax(data[start : start+vocab])
argmaxReturn ==
    /\ amPc = "read"
    /\ amNext' = argmax(amRow)
    /\ amPc' = "returned"
    /\ UNCHANGED <<amShape, amData, amRow>>
    /\ UNCHANGED amOthers

\* the next step's logits
amNextStep ==
    /\ amPc = "returned"
    /\ amPc' = "idle"
    /\ amShape' = <<1, 0, 0>>
    /\ amData' = <<>>
    /\ amRow' = <<>>
    /\ amNext' = -1
    /\ UNCHANGED amOthers

InitArgmax ==
    /\ InitGen /\ tokFile = 1
    /\ InitEmb /\ embFile = 1
    /\ InitRest
    /\ backend = "onnx"

NextArgmax ==
    \/ readLogits
    \/ argmaxReturn
    \/ amNextStep

SpecArgmax == InitArgmax /\ [][NextArgmax]_vars

(***************************************************************************)
(* C25                                                                     *)
(***************************************************************************)
\* C25: the next token id is an index of the largest value of the logits row
\* of the last position (row shape[1]-1), and no lower index of that row
\* holds the same value; this for every logits row.
C25_ArgmaxOfLastRow ==
    amPc = "returned" =>
        LET vocab == amShape[3]
            first == vocab * (amShape[2] - 1)
        IN /\ amNext \in 0..(vocab - 1)
           /\ \A j \in 0..(vocab - 1) : amData[first + j] <= amData[first + amNext]
           /\ \A j \in 0..(amNext - 1) : amData[first + j] < amData[first + amNext]

(***************************************************************************)
(* The entry of Generate and GenerateWithCallback, prompt by prompt        *)
(***************************************************************************)
\* ids := q.tok.Encode(prompt); if len(ids) > q.maxLen { ... }
EnterWith(v, prompt) ==
    /\ trVariant' = v
    /\ trPrompt' = prompt
    /\ trIds' = KeepLast(Encode(tok, prompt))
    /\ trPc' = "entered"
    /\ UNCHANGED trOthers

GenerateEntry ==
    /\ trPc = "idle"
    /\ \E prompt \in Prompts : EnterWith("Generate", prompt)

GenerateWithCallbackEntry ==
    /\ trPc = "idle"
    /\ \E prompt \in Prompts : EnterWith("GenerateWithCallback", prompt)

\* the next call
trNextCall ==
    /\ trPc = "entered"
    /\ trPc' = "idle"
    /\ trVariant' = ""
    /\ trPrompt' = <<>>
    /\ trIds' = <<>>
    /\ UNCHANGED trOthers

InitEntry ==
    /\ InitGen
    /\ InitEmb /\ embFile = 1
    /\ InitRest
    /\ backend = "onnx"

NextEntry ==
    \/ GenerateEntry
    \/ GenerateWithCallbackEntry
    \/ trNextCall

SpecEntry == InitEntry /\ [][NextEntry]_vars

(***************************************************************************)
(* C26                                                                     *)
(***************************************************************************)
\* C26: when the loop of Generate or GenerateWithCallback is reached, ids is
\* the encoding of the prompt if that has at most maxLen tokens, and
\* otherwise its last maxLen tokens in their order.
C26_KeepsLastMaxLen ==
    trPc = "entered" =>
        LET e == Encode(tok, trPrompt)
            n == Len(e)
        IN IF n > maxLen
           THEN /\ Len(trIds) = maxLen
                /\ \A i \in 1..maxLen : trIds[i] = e[n - maxLen + i]
           ELSE trIds = e

\* a GenerateWithCallback call whose prompt is longer than the window and
\* loses its first token
C26_Witness ==
    /\ trPc = "entered"
    /\ trVariant = "GenerateWithCallback"
    /\ Len(Encode(tok, trPrompt)) > maxLen
    /\ Len(trIds) = maxLen
    /\ trIds # SubSeq(Encode(tok, trPrompt), 1, maxLen)

(***************************************************************************)
(* C27                                                                     *)
(***************************************************************************)
\* the steps the goroutine and the handler take by themselves; a new request
\* and the client's going away are up to the client
StreamStep ==
    \/ producerSetup
    \/ producerScan
    \/ producerScanErr
    \/ producerCloseErrs
    \/ producerCloseLines
    \/ selectLine
    \/ selectLinesClosed
    \/ selectErr
    \/ selectCtxDone

\* goroutines that can take a step are scheduled
FairStream == SpecStream /\ WF_vars(StreamStep)

\* C27: once the handler of a streaming transcription has returned, the
\* goroutine started by TranscribeFileStream eventually exits with both
\* channels closed.
C27_ProducerExits ==
    (sttPc = "returned") ~> (prodPc = "exited" /\ errsClosed /\ linesClosed)

(***************************************************************************)
(* The temp audio file of a transcription request                          *)
(***************************************************************************)
\* client-supplied filenames, as sequences of characters
Filenames ==
    { <<"a">>, <<"b">>, <<"d", "/", "a">>, <<"a", " ", "b">>, <<"a", "-", "b">> }

\* filepath.Base for a name that does not end in a separator
RECURSIVE Base(_)
Base(name) ==
    IF \E i \in 1..Len(name) : name[i] = "/" THEN Base(Tail(name)) ELSE name

\* strings.ReplaceAll(name, " ", "-")
ReplaceSpaces(name) == [i \in 1..Len(name) |-> IF name[i] = " " THEN "-" ELSE name[i]]

sanitizeName(name) == ReplaceSpaces(Base(name))

\* "stt-" for the two HTTP handlers, "ws-audio-" for the socket
Prefixes == {"stt-", "ws-audio-"}

\* filepath.Join(os.TempDir(), prefix + sanitizeName(filename))
TempPath(prefix, name) == <<prefix>> \o sanitizeName(name)

TempPaths == {TempPath(prefix, name) : prefix \in Prefixes, name \in Filenames}

\* what the temp directory holds at a path
FileAt(files, path) == IF path \in DOMAIN files THEN files[path] ELSE NoFile

\* the temp directory with the file at path replaced
WithFile(files, path, content) ==
    [q \in (DOMAIN files) \cup {path} |-> IF q = path THEN content ELSE files[q]]

\* the temp directory without the file at path
WithoutFile(files, path) == [q \in (DOMAIN files) \ {path} |-> files[q]]

\* os.Create(tmpPath), or the open of os.WriteFile: the file is there, empty
tfCreate(r) ==
    /\ tfPc[r] = "idle"
    /\ \E prefix \in Prefixes, name \in Filenames :
        /\ tfPath' = [tfPath EXCEPT ![r] = TempPath(prefix, name)]
        /\ tfFiles' = WithFile(tfFiles, TempPath(prefix, name), EmptyFile)
    /\ tfPc' = [tfPc EXCEPT ![r] = "created"]
    /\ UNCHANGED <<tfRead, tfRemoved>>
    /\ UNCHANGED tfOthers

\* io.Copy(out, file), or the write of os.WriteFile: the request's audio is
\* in the file it opened; a file unlinked meanwhile is no longer at the path
tfWrite(r) ==
    /\ tfPc[r] = "created"
    /\ tfFiles' = IF FileAt(tfFiles, tfPath[r]) = NoFile THEN tfFiles
                  ELSE WithFile(tfFiles, tfPath[r], AudioOf(r))
    /\ tfPc' = [tfPc EXCEPT ![r] = "written"]
    /\ UNCHANGED <<tfPath, tfRead, tfRemoved>>
    /\ UNCHANGED tfOthers

\* d.STT.TranscribeFile(ctx, tmpPath, model) or TranscribeFileStream: whisper
\* reads what is at the path
tfTranscribe(r) ==
    /\ tfPc[r] = "written"
    /\ tfRead' = [tfRead EXCEPT ![r] = FileAt(tfFiles, tfPath[r])]
    /\ tfPc' = [tfPc EXCEPT ![r] = "transcribed"]
    /\ UNCHANGED <<tfPath, tfRemoved, tfFiles>>
    /\ UNCHANGED tfOthers

\* the deferred os.Remove(tmpPath)
tfRemove(r) ==
    /\ tfPc[r] = "transcribed"
    /\ tfRemoved' = [tfRemoved EXCEPT ![r] = FileAt(tfFiles, tfPath[r])]
    /\ tfFiles' = WithoutFile(tfFiles, tfPath[r])
    /\ tfPc' = [tfPc EXCEPT ![r] = "done"]
    /\ UNCHANGED <<tfPath, tfRead>>
    /\ UNCHANGED tfOthers

\* the request is over
tfNextRequest(r) ==
    /\ tfPc[r] = "done"
    /\ tfPc' = [tfPc EXCEPT ![r] = "idle"]
    /\ tfPath' = [tfPath EXCEPT ![r] = <<>>]
    /\ tfRead' = [tfRead EXCEPT ![r] = NoFile]
    /\ tfRemoved' = [tfRemoved EXCEPT ![r] = NoFile]
    /\ UNCHANGED tfFiles
    /\ UNCHANGED tfOthers

InitTempFiles ==
    /\ InitGen /\ tokFile = 1
    /\ InitEmb /\ embFile = 1
    /\ InitRest
    /\ backend = "onnx"

NextTempFiles ==
    \E r \in Requests :
        \/ tfCreate(r)
        \/ tfWrite(r)
        \/ tfTranscribe(r)
        \/ tfRemove(r)
        \/ tfNextRequest(r)

SpecTempFiles == InitTempFiles /\ [][NextTempFiles]_vars

\* the requests that hold a temp file
InFlight == {r \in Requests : tfPc[r] \in {"created", "written", "transcribed"}}

(***************************************************************************)
(* C28                                                                     *)
(***************************************************************************)
\* C28: the temp paths of two requests in flight differ, whatever their
\* filenames, and a request transcribes and removes only its own audio.
C28_TempFilesDistinct ==
    /\ \A r1 \in InFlight, r2 \in InFlight : r1 # r2 => tfPath[r1] # tfPath[r2]
    /\ \A r \in Requests :
        /\ tfPc[r] \in {"transcribed", "done"} => tfRead[r] = AudioOf(r)
        /\ tfPc[r] = "done" => tfRemoved[r] = AudioOf(r)

(***************************************************************************)
(* The llama-server backed LLM service: EnsureReady, startServer, proxies  *)
(***************************************************************************)
\* the health polls that fit before the deadline of startServer (20 s at
\* 500 ms in the source), scaled
HealthPolls == 2

\* a return of EnsureReady
EnsureReadyReturn(res) ==
    /\ llmResult' = res
    /\ llmPc' = "returned"

\* EnsureReady up to the start of the server: the model or the binary cannot
\* be had, or s.addr is set and nil is returned, or startServer is called
EnsureReady ==
    /\ llmPc = "idle"
    /\ \/ /\ EnsureReadyReturn("install error")
          /\ UNCHANGED llmPolls
       \/ /\ llmAddr # ""
          /\ EnsureReadyReturn("nil")
          /\ UNCHANGED llmPolls
       \/ /\ llmAddr = ""
          /\ llmPc' = "start"
          /\ llmPolls' = 0
          /\ UNCHANGED llmResult
    /\ UNCHANGED <<llmAddr, llmStarted, llmPassed, llmProxy>>
    /\ UNCHANGED llmOthers

\* net.Listen or cmd.Start fails: return err
startServerFails ==
    /\ llmPc = "start"
    /\ EnsureReadyReturn("start error")
    /\ UNCHANGED <<llmAddr, llmStarted, llmPassed, llmPolls, llmProxy>>
    /\ UNCHANGED llmOthers

\* cmd.Start succeeded: s.srvCmd = cmd; s.addr = "http://127.0.0.1:" + port
startServerStarted ==
    /\ llmPc = "start"
    /\ llmStarted' = llmStarted + 1
    /\ llmAddr' = "http://127.0.0.1"
    /\ llmPassed' = FALSE
    /\ llmPc' = "health"
    /\ UNCHANGED <<llmPolls, llmResult, llmProxy>>
    /\ UNCHANGED llmOthers

\* if s.health() == nil { return nil }
healthOK ==
    /\ llmPc = "health"
    /\ llmPolls < HealthPolls
    /\ llmPassed' = TRUE
    /\ EnsureReadyReturn("nil")
    /\ UNCHANGED <<llmAddr, llmStarted, llmPolls, llmProxy>>
    /\ UNCHANGED llmOthers

\* s.health() fails; time.Sleep(500 * time.Millisecond)
healthFails ==
    /\ llmPc = "health"
    /\ llmPolls < HealthPolls
    /\ llmPolls' = llmPolls + 1
    /\ UNCHANGED <<llmPc, llmAddr, llmStarted, llmPassed, llmResult, llmProxy>>
    /\ UNCHANGED llmOthers

\* the deadline has passed: return fmt.Errorf("llama-server failed to become
\* ready at %s", s.addr)
healthDeadline ==
    /\ llmPc = "health"
    /\ llmPolls >= HealthPolls
    /\ EnsureReadyReturn("not ready")
    /\ UNCHANGED <<llmAddr, llmStarted, llmPassed, llmPolls, llmProxy>>
    /\ UNCHANGED llmOthers

\* ProxyChatCompletions and ProxyCompletions with localQwen == nil:
\* if s.addr == "" { 503 "llm not ready" } else s.proxyJSON
Proxy(handler) ==
    /\ llmProxy' = IF llmAddr = "" THEN <<handler, "503 llm not ready">>
                   ELSE <<handler, "forwarded">>
    /\ UNCHANGED <<llmPc, llmAddr, llmStarted, llmPassed, llmPolls, llmResult>>
    /\ UNCHANGED llmOthers

ProxyChatCompletions ==
    /\ llmPc \in {"idle", "returned"}
    /\ Proxy("ProxyChatCompletions")

ProxyCompletions ==
    /\ llmPc \in {"idle", "returned"}
    /\ Proxy("ProxyCompletions")

\* the caller may call EnsureReady again
llmNextCall ==
    /\ llmPc = "returned"
    /\ llmPc' = "idle"
    /\ UNCHANGED <<llmAddr, llmStarted, llmPassed, llmPolls, llmResult, llmProxy>>
    /\ UNCHANGED llmOthers

InitLlmService ==
    /\ InitGen /\ tokFile = 1
    /\ InitEmb /\ embFile = 1
    /\ InitRest
    /\ backend = "onnx"

NextLlmService ==
    \/ EnsureReady
    \/ startServerFails
    \/ startServerStarted
    \/ healthOK
    \/ healthFails
    \/ healthDeadline
    \/ ProxyChatCompletions
    \/ ProxyCompletions
    \/ llmNextCall

SpecLlmService == InitLlmService /\ [][NextLlmService]_vars

(***************************************************************************)
(* C29                                                                     *)
(***************************************************************************)
\* C29: EnsureReady returns nil, and a proxy handler forwards instead of
\* answering 503, only when the started server has passed its health check.
C29_ReadyOnlyIfHealthy ==
    /\ (llmPc = "returned" /\ llmResult = "nil") => llmPassed
    /\ (llmProxy # "none" /\ llmProxy[2] = "forwarded") => llmPassed

====
